---- MODULE Spec2Model ----
(***************************************************************************)
(* Model of the PTX -> LLVM translator core of ZLUDA:                      *)
(*   - the identifier normalization pass  (ptx/src/pass/normalize_identifiers2.rs) *)
(*   - the LLVM emission pass             (ptx/src/pass/emit_llvm.rs)      *)
(* The scoped resolver the normalization pass drives lives in pass/mod.rs, *)
(* which is not part of the sources at hand; it is modelled from the       *)
(* written specification (section 4.1 / 4.2).                              *)
(***************************************************************************)
EXTENDS Integers, Sequences, FiniteSets, TLC

VARIABLES
    npc,        \* position of normalize_identifiers2::run: "start", "module", "body", "done", "error"
    resolver,   \* the ScopedResolver: scope stack, identifier table, next id
    frames,     \* open statement lists of the method being normalized (innermost last)
    result,     \* the `result` vector of the method body being normalized
    fn_decl,    \* the MethodDeclaration produced by run_function_decl for the open method
    directives, \* the NormalizedDirective2 values collected so far by run
    nerr,       \* the TranslateError run returned (None while there is none)
    intro,      \* history: every id handed out by the resolver, with name, call and scope instance
    last,       \* history: the statement handled by the last step and what it saw
    opened,     \* history: number of scopes opened so far (names the scope instances)
    used,       \* number of parsed statements consumed so far (bounds the input)
    epc,        \* position of emit_llvm::run: "idle", "start", "module", "body", "done", "released", "error", "panic"
    llvm,       \* the LLVM module under construction, the builders and the ResolveIdent
    eerr,       \* the TranslateError emit_llvm::run returned ("" while there is none)
    verifier,   \* what LLVMVerifyModule answered, once it has been asked
    bitcode,    \* the module as written by write_bitcode_to_memory, once it has been
    elast,      \* history: the directive or statement emitted by the last step
    eused,      \* number of directives and statements emitted so far (bounds the input)
    emethod,    \* history: the method whose body is being emitted, if any
    emitted,    \* history: the methods emit_method returned Ok for, each with its function
    heap,       \* history: the LLVM objects created and disposed so far, in order
    debug_assertions,   \* whether the build has debug assertions
    nvml        \* a call of system_get_driver_version: its arguments, the caller's buffer, its return

nvars == <<npc, resolver, frames, result, fn_decl, directives, nerr, intro, last, opened, used>>

evars == <<epc, llvm, eerr, verifier, bitcode, elast, eused, emethod, emitted, heap,
           debug_assertions>>

vars == <<nvars, evars, nvml>>

\* Option<T>: None is the empty sequence, Some(x) the sequence of x alone
None == <<>>

Some(x) == <<x>>

\* a result named once: F applied to the value of x
With(x, F(_)) == F(x)

(***************************************************************************)
(* Bounds of the explored input.                                           *)
(***************************************************************************)
MaxInput   == 4   \* parsed directives and statements per translation unit (nested ones included)
MaxDepth   == 1   \* nesting depth of Statement::Block
MaxCount   == 2   \* largest <N> of a multi-variable declaration
MaxLabels  == 1   \* labels per statement list
MaxEmit    == 4   \* directives and statements handed to the emitter
MaxAbi     == 1   \* method declarations handed to the emitter when only signatures are explored
MaxSpaces  == 2   \* statements handed to the emitter when the state spaces are explored
MaxGaps    == 3   \* directives and statements handed to the emitter when the known gaps are explored
MaxPasses  == 3   \* directives and statements handed to the emitter when both passes are explored
MaxRelease == 3   \* directives and statements handed to the emitter when the object lifetimes are explored
MaxBody    == 4   \* directives and statements handed to the emitter when method bodies are explored
MaxCalls   == 4   \* directives and statements handed to the emitter when calls are explored
MaxNames   == 3   \* directives handed to the emitter when function names are explored
MaxTypes   == 2   \* directives and statements handed to the emitter when array types are explored
MaxDims    == 3   \* dimensions of an array type
MaxLength  == 9   \* the length argument of system_get_driver_version and the size of the caller's buffer
MaxFailures == 4  \* directives and statements handed to the emitter when failing statements are explored

Min(a, b) == IF a < b THEN a ELSE b

(***************************************************************************)
(* Source names.                                                           *)
(***************************************************************************)
Names       == {"r", "r0", "L"}     \* variables, labels, operands
LabelNames  == {"L", "r0"}
GlobalNames == {"f", "g"}           \* device functions and module variables
KernelNames == {"k"}
\* every name a scope can come to hold: the above and the expansions r<N>
AllNames    == Names \cup GlobalNames \cup KernelNames \cup {"r1", "r2", "r3", "r4"}

(***************************************************************************)
(* Parsed input.  A variable is ast::Variable<&str>; the two attribute     *)
(* sets differ in every field, so that a mix-up of fields shows.           *)
(***************************************************************************)
AttrsA == [v_type |-> "u32", state_space |-> "Reg",   align |-> None, array_init |-> <<>>]
AttrsB == [v_type |-> "f32", state_space |-> "Local", align |-> Some(4), array_init |-> <<7>>]

Variable(name, a) ==
    [name |-> name, align |-> a.align, v_type |-> a.v_type,
     state_space |-> a.state_space, array_init |-> a.array_init]

AttrsOf(name) == IF name = "r0" THEN AttrsB ELSE AttrsA

ParsedVariables == { Variable(n, AttrsOf(n)) : n \in Names }

\* ast::MultiVariable: var plus the optional <N>
ParsedMultiVariables ==
    { [var |-> v, count |-> None] : v \in ParsedVariables }
    \cup { [var |-> Variable("r", AttrsA), count |-> Some(n)] : n \in 0 .. MaxCount }

\* Statement::Instruction(predicate, instruction): the instruction is its operand list
ParsedInstructions ==
    { [pred |-> None, args |-> <<n>>] : n \in Names }
    \cup { [pred |-> Some([not |-> TRUE, label |-> n]), args |-> <<"r">>] : n \in LabelNames }

LabelLists == { <<>> } \cup { <<l>> : l \in LabelNames }
                  \cup (IF MaxLabels >= 2 THEN { <<l, m>> : l \in LabelNames, m \in LabelNames } ELSE {})
                  \cup (IF MaxLabels >= 3
                        THEN { <<l, m, k>> : l \in LabelNames, m \in LabelNames, k \in LabelNames }
                        ELSE {})

\* ast::MethodDeclaration<&str> of a parsed method
MethodDeclaration(name, ra, ia) ==
    [name |-> name, return_arguments |-> ra, input_arguments |-> ia, shared_mem |-> None]

ParsedDeclarations ==
    { MethodDeclaration([kind |-> "Kernel", text |-> "k"], <<>>, <<Variable("r", AttrsA)>>),
      MethodDeclaration([kind |-> "Func", text |-> "f"], <<>>, <<>>),
      MethodDeclaration([kind |-> "Func", text |-> "g"],
                        <<Variable("r0", AttrsB)>>, <<Variable("r", AttrsA)>>),
      MethodDeclaration([kind |-> "Func", text |-> "f"], <<>>,
                        <<Variable("r", AttrsA), Variable("r", AttrsB)>>),
      [MethodDeclaration([kind |-> "Kernel", text |-> "k"], <<>>, <<>>)
          EXCEPT !.shared_mem = Some("s")] }

(***************************************************************************)
(* Rendering of an index as decimal text, as format!("{}", i) does.        *)
(***************************************************************************)
Digit(d) == CASE d = 0 -> "0" [] d = 1 -> "1" [] d = 2 -> "2" [] d = 3 -> "3"
              [] d = 4 -> "4" [] d = 5 -> "5" [] d = 6 -> "6" [] d = 7 -> "7"
              [] d = 8 -> "8" [] d = 9 -> "9"

RECURSIVE ToDecimal(_)
ToDecimal(n) == IF n < 10 THEN Digit(n) ELSE ToDecimal(n \div 10) \o Digit(n % 10)

(***************************************************************************)
(* Scoped resolver and identifier table (pass/mod.rs, from the written     *)
(* specification).  A scope maps source names to ids; ident_map maps every *)
(* id ever handed out to its descriptor; ids are consecutive from 1.       *)
(***************************************************************************)
EmptyMap == [x \in {} |-> 0]

NewResolver == [scopes |-> <<>>, ident_map |-> EmptyMap, current_id |-> 1]

CurrentScope(r) == r.scopes[Len(r.scopes)]

start_scope(r) == [r EXCEPT !.scopes = Append(@, EmptyMap)]

end_scope(r) == [r EXCEPT !.scopes = SubSeq(@, 1, Len(@) - 1)]

\* a TranslateError names the call that failed and the name it failed on
Fail(r, e) == [ok |-> FALSE, err |-> e, r |-> r, id |-> 0]

Bind(r, name, type_space) ==
    [ok |-> TRUE, err |-> None, id |-> r.current_id,
     r |-> [scopes |-> [r.scopes EXCEPT ![Len(r.scopes)] = (name :> r.current_id) @@ @],
            ident_map |-> (r.current_id :> [name |-> name, type_space |-> type_space])
                              @@ r.ident_map,
            current_id |-> r.current_id + 1]]

add(r, name, type_space) ==
    IF name \in DOMAIN CurrentScope(r)
    THEN Fail(r, <<"add", name>>)
    ELSE Bind(r, name, type_space)

add_or_get_in_current_scope_untyped(r, name) ==
    IF name \in DOMAIN CurrentScope(r)
    THEN [ok |-> TRUE, err |-> None, r |-> r, id |-> CurrentScope(r)[name]]
    ELSE Bind(r, name, None)

RECURSIVE LookupFrom(_, _, _)
LookupFrom(r, name, i) ==
    IF i = 0 THEN Fail(r, <<"get", name>>)
    ELSE IF name \in DOMAIN r.scopes[i]
         THEN [ok |-> TRUE, err |-> None, r |-> r, id |-> r.scopes[i][name]]
         ELSE LookupFrom(r, name, i - 1)

get(r, name) == LookupFrom(r, name, Len(r.scopes))

get_in_current_scope(r, name) ==
    IF name \in DOMAIN CurrentScope(r)
    THEN [ok |-> TRUE, err |-> None, r |-> r, id |-> CurrentScope(r)[name]]
    ELSE Fail(r, <<"get", name>>)

(***************************************************************************)
(* normalize_identifiers2.rs: the functions of the pass.  Each returns     *)
(* [ok, err, r, ...]: the Result, and the resolver as the call left it.    *)
(***************************************************************************)
\* run_variable with the name interned the way run_method interns a function name
run_variable_interned(r, variable) ==
    LET a == add_or_get_in_current_scope_untyped(r, variable.name)
    IN  [ok |-> a.ok, err |-> a.err, r |-> a.r,
         out |-> [name |-> a.id, align |-> variable.align, v_type |-> variable.v_type,
                  state_space |-> variable.state_space,
                  array_init |-> variable.array_init]]

\* run_variable: add the name with its (type, state space); copy the other fields
run_variable(r, variable) ==
    LET a == add(r, variable.name, <<variable.v_type, variable.state_space>>)
    IN  [ok |-> a.ok, err |-> a.err, r |-> a.r,
         out |-> [name |-> a.id, align |-> variable.align, v_type |-> variable.v_type,
                  state_space |-> variable.state_space,
                  array_init |-> variable.array_init]]

\* variables.into_iter().map(run_variable).collect::<Result<Vec<_>, _>>(): stops at the first Err
RECURSIVE run_variables(_, _, _)
run_variables(r, variables, acc) ==
    IF variables = <<>> THEN [ok |-> TRUE, err |-> None, r |-> r, out |-> acc]
    ELSE With(run_variable(r, Head(variables)), LAMBDA v :
            IF v.ok THEN run_variables(v.r, Tail(variables), Append(acc, v.out))
            ELSE [ok |-> FALSE, err |-> v.err, r |-> v.r, out |-> <<>>])

\* run_function_decl: return arguments first, then input arguments
run_function_decl(r, func_directive, name) ==
    With(run_variables(r, func_directive.return_arguments, <<>>), LAMBDA ra :
        IF ~ra.ok THEN [ok |-> FALSE, err |-> ra.err, r |-> ra.r, out |-> None]
        ELSE With(run_variables(ra.r, func_directive.input_arguments, <<>>), LAMBDA ia :
            IF ~ia.ok THEN [ok |-> FALSE, err |-> ia.err, r |-> ia.r, out |-> None]
            ELSE [ok |-> TRUE, err |-> None, r |-> ia.r,
                  out |-> [return_arguments |-> ra.out, name |-> name,
                           input_arguments |-> ia.out, shared_mem |-> None]]))

\* run_method with the scope of the method opened before the name is interned
run_method_name_early_scope(r, name) ==
    IF name.kind = "Kernel"
    THEN [ok |-> TRUE, err |-> None, r |-> start_scope(r),
          name |-> [kind |-> "Kernel", val |-> name.text]]
    ELSE LET a == add_or_get_in_current_scope_untyped(start_scope(r), name.text)
         IN  [ok |-> a.ok, err |-> a.err, r |-> a.r,
              name |-> [kind |-> "Func", val |-> a.id]]

\* run_method, lines 36-42: intern the method name in the scope of the
\* directives, then open the scope of the method
run_method_name(r, name) ==
    IF name.kind = "Kernel"
    THEN [ok |-> TRUE, err |-> None, r |-> start_scope(r),
          name |-> [kind |-> "Kernel", val |-> name.text]]
    ELSE LET a == add_or_get_in_current_scope_untyped(r, name.text)
         IN  [ok |-> a.ok, err |-> a.err, r |-> start_scope(a.r),
              name |-> [kind |-> "Func", val |-> a.id]]

\* run_method, lines 36-43: name, scope and declaration
run_method_head(r, func_directive) ==
    With(run_method_name(r, func_directive.name), LAMBDA n :
        IF ~n.ok THEN [ok |-> FALSE, err |-> n.err, r |-> n.r, out |-> None]
        ELSE run_function_decl(n.r, func_directive, n.name))

\* run_method, lines 52-60: close the scope of the method, build the Function2
run_method_tail(r, func_decl, body) ==
    [r |-> end_scope(r),
     out |-> [kind |-> "Method", func_decl |-> func_decl, globals |-> <<>>,
              body |-> body, import_as |-> None]]

\* run_statements, lines 108-115: the pre-pass adds every label of the list,
\* untyped, to the current scope.  ids: what the add calls returned.
RECURSIVE hoist_labels_from(_, _, _)
hoist_labels_from(r, labels, ids) ==
    IF labels = <<>> THEN [ok |-> TRUE, err |-> None, r |-> r, ids |-> ids]
    ELSE LET a == add(r, Head(labels), None)
         IN  IF a.ok THEN hoist_labels_from(a.r, Tail(labels), Append(ids, a.id))
             ELSE [ok |-> FALSE, err |-> a.err, r |-> a.r, ids |-> ids]

\* run_statements without its pre-pass
hoist_labels_skipped(r, labels) == [ok |-> TRUE, err |-> None, r |-> r, ids |-> <<>>]

\* the pre-pass adding the labels to the scope that encloses the list
hoist_labels_enclosing(r, labels) ==
    LET h == hoist_labels_from(end_scope(r), labels, <<>>)
    IN  [h EXCEPT !.r.scopes = Append(@, CurrentScope(r))]

hoist_labels(r, labels) == hoist_labels_from(r, labels, <<>>)

\* run_statements, lines 118-120: a label of the main pass
run_label(r, label) ==
    LET g == get_in_current_scope(r, label)
    IN  [ok |-> g.ok, err |-> g.err, r |-> r, out |-> [kind |-> "Label", id |-> g.id]]

\* run_instruction: ast::visit_map resolves every operand with get, in
\* operand order, and stops at the first Err
RECURSIVE run_instruction_from(_, _, _)
run_instruction_from(r, args, acc) ==
    IF args = <<>> THEN [ok |-> TRUE, err |-> None, out |-> acc]
    ELSE LET g == get(r, Head(args))
         IN  IF g.ok THEN run_instruction_from(r, Tail(args), Append(acc, g.id))
             ELSE [ok |-> FALSE, err |-> g.err, out |-> <<>>]

\* the operands resolved from the enclosing scope, the current one left out
run_instruction_enclosing(r, args) ==
    run_instruction_from([r EXCEPT !.scopes = SubSeq(@, 1, Len(@) - 1)], args, <<>>)

run_instruction(r, args) == run_instruction_from(r, args, <<>>)

\* run_statements, lines 122-134: the predicate is resolved first, then the operands
run_predicated(r, inst) ==
    LET p == IF inst.pred = None THEN [ok |-> TRUE, err |-> None, id |-> 0]
             ELSE get(r, inst.pred[1].label)
        i == run_instruction(r, inst.args)
    IN  IF ~p.ok THEN [ok |-> FALSE, err |-> p.err, out |-> None]
        ELSE IF ~i.ok THEN [ok |-> FALSE, err |-> i.err, out |-> None]
        ELSE [ok |-> TRUE, err |-> None,
              out |-> [kind |-> "Instruction",
                       pred |-> IF inst.pred = None THEN None
                                ELSE Some([not |-> inst.pred[1].not, label |-> p.id]),
                       args |-> i.out]]

\* run_multivariable, lines 166-181: for i in 0..count
RECURSIVE run_multivariable_from(_, _, _, _, _)
run_multivariable_from(r, res, variable, i, count) ==
    IF i >= count THEN [ok |-> TRUE, err |-> None, r |-> r, result |-> res]
    ELSE LET a == add(r, variable.var.name \o ToDecimal(i),
                      <<variable.var.v_type, variable.var.state_space>>)
         IN  IF ~a.ok THEN [ok |-> FALSE, err |-> a.err, r |-> a.r, result |-> res]
             ELSE run_multivariable_from(a.r,
                      Append(res, [kind |-> "Variable", name |-> a.id,
                                   align |-> variable.var.align,
                                   v_type |-> variable.var.v_type,
                                   state_space |-> variable.var.state_space,
                                   array_init |-> variable.var.array_init]),
                      variable, i + 1, count)

\* run_multivariable, lines 182-195: no count
run_multivariable_single(r, res, variable) ==
    LET v == run_variable(r, variable.var)
    IN  [ok |-> v.ok, err |-> v.err, r |-> v.r,
         result |-> IF v.ok THEN Append(res, [kind |-> "Variable"] @@ v.out) ELSE res]

\* run_multivariable counting from 1 to count
run_multivariable_from_one(r, res, variable) ==
    IF variable.count = None THEN run_multivariable_single(r, res, variable)
    ELSE run_multivariable_from(r, res, variable, 1, variable.count[1] + 1)

\* run_multivariable, lines 165-197
run_multivariable(r, res, variable) ==
    IF variable.count = None THEN run_multivariable_single(r, res, variable)
    ELSE run_multivariable_from(r, res, variable, 0, variable.count[1])

\* run_statements, lines 135-139: the scope around a nested block
block_enter(r) == start_scope(r)

\* the block left without end_scope
block_exit_keeps_scope(r) == r

\* the block left with the table entries of its names dropped as well
block_exit_forgets(r) ==
    [end_scope(r) EXCEPT !.ident_map =
        [id \in DOMAIN @ \ {CurrentScope(r)[n] : n \in DOMAIN CurrentScope(r)} |-> @[id]]]

block_exit(r) == end_scope(r)

(***************************************************************************)
(* The normalize pass as a state machine.  The parsed input is consumed as *)
(* the pass walks it: a directive when run_directive is entered, the       *)
(* labels of a statement list when run_statements is entered (its pre-pass *)
(* reads them all), every other statement when the main pass reaches it.   *)
(***************************************************************************)
ModuleScope == 1

Top == frames[Len(frames)]

\* history entries for the ids a list of variables was given
IntroOf(op, names, ids, scope) ==
    [i \in 1 .. Len(ids) |-> [op |-> op, name |-> names[i], id |-> ids[i], scope |-> scope]]

NamesOf(variables) == [i \in 1 .. Len(variables) |-> variables[i].name]

\* run_function_decl, line 68: assert!(func_directive.shared_mem.is_none())
\* aborts the translation
Panic ==
    /\ npc' = "panic"
    /\ UNCHANGED <<resolver, frames, result, fn_decl, directives, nerr, intro, opened>>

\* a failing call whose error is noted while the iteration goes on
Raise_and_go_on(r, e) ==
    /\ nerr' = e
    /\ resolver' = r
    /\ UNCHANGED <<npc, frames, result, fn_decl, directives, intro, opened>>

\* the `?` of a failing call: run returns the error, nothing else is touched
Raise(r, e) ==
    /\ npc' = "error"
    /\ nerr' = e
    /\ resolver' = r
    /\ UNCHANGED <<frames, result, fn_decl, directives, intro, opened>>

NInit ==
    /\ npc = "start"
    /\ resolver = NewResolver
    /\ frames = <<>>
    /\ result = <<>>
    /\ fn_decl = None
    /\ directives = <<>>
    /\ nerr = None
    /\ intro = <<>>
    /\ last = [kind |-> "none"]
    /\ opened = 0
    /\ used = 0

\* run, line 8
RunStart ==
    /\ npc = "start"
    /\ npc' = "module"
    /\ resolver' = start_scope(resolver)
    /\ opened' = opened + 1
    /\ last' = [kind |-> "RunStart"]
    /\ UNCHANGED <<frames, result, fn_decl, directives, nerr, intro, used>>

\* run_directive, Directive::Variable
DirectiveVariable(variable) ==
    /\ npc = "module"
    /\ used < MaxInput
    /\ LET v == run_variable(resolver, variable)
       IN  /\ last' = [kind |-> "DirectiveVariable", ok |-> v.ok]
           /\ used' = used + 1
           /\ IF v.ok
              THEN /\ resolver' = v.r
                   /\ directives' = Append(directives, [kind |-> "Variable", var |-> v.out,
                                                         src |-> variable.name])
                   /\ intro' = Append(intro, [op |-> "add", name |-> variable.name,
                                              id |-> v.out.name, scope |-> ModuleScope])
                   /\ UNCHANGED <<npc, frames, result, fn_decl, nerr, opened>>
              ELSE Raise(v.r, v.err)

\* what run_method's name and declaration handed out
HeadIntro(decl, out, scope) ==
    (IF decl.name.kind = "Func"
     THEN <<[op |-> "add_or_get", name |-> decl.name.text, id |-> out.name.val,
             scope |-> ModuleScope]>>
     ELSE <<>>)
    \o IntroOf("add", NamesOf(decl.return_arguments), NamesOf(out.return_arguments), scope)
    \o IntroOf("add", NamesOf(decl.input_arguments), NamesOf(out.input_arguments), scope)

\* run_directive, Directive::Method, of a method without a body
DeclareMethod(decl) ==
    /\ npc = "module"
    /\ used < MaxInput
    /\ \E n \in {run_method_name(resolver, decl.name)} :
       \E h \in {run_method_head(resolver, decl)} :
       \E t \in {run_method_tail(h.r, h.out, None)} :
           /\ last' = [kind |-> "DeclareMethod", ok |-> h.ok, name |-> decl.name,
                       ids_before |-> resolver.current_id]
           /\ used' = used + 1
           /\ IF n.ok /\ decl.shared_mem # None THEN Panic
              ELSE IF h.ok
              THEN /\ resolver' = t.r
                   /\ directives' = Append(directives, [src |-> decl.name] @@ t.out)
                   /\ intro' = intro \o HeadIntro(decl, h.out, opened + 1)
                   /\ opened' = opened + 1
                   /\ UNCHANGED <<npc, frames, result, fn_decl, nerr>>
              ELSE Raise(h.r, h.err)

\* run_directive, Directive::Method, of a method with a body: up to the
\* label pre-pass of the body
MethodBegin(decl, labels) ==
    /\ npc = "module"
    /\ used + 1 + Len(labels) <= MaxInput
    /\ \E n \in {run_method_name(resolver, decl.name)} :
       \E h \in {run_method_head(resolver, decl)} :
       \E l \in {hoist_labels(h.r, labels)} :
           /\ last' = [kind |-> "MethodBegin", ok |-> h.ok /\ l.ok, name |-> decl.name,
                       ids_before |-> resolver.current_id]
           /\ used' = used + 1 + Len(labels)
           /\ IF n.ok /\ decl.shared_mem # None THEN Panic
              ELSE IF ~h.ok THEN Raise(h.r, h.err)
              ELSE IF ~l.ok THEN Raise(l.r, l.err)
              ELSE /\ npc' = "body"
                   /\ resolver' = l.r
                   /\ frames' = <<[uid |-> opened + 1, kind |-> "method", pending |-> labels,
                                    src |-> decl.name]>>
                   /\ result' = <<>>
                   /\ fn_decl' = Some(h.out)
                   /\ intro' = intro \o HeadIntro(decl, h.out, opened + 1)
                                     \o IntroOf("add", labels, l.ids, opened + 1)
                   /\ opened' = opened + 1
                   /\ UNCHANGED <<directives, nerr>>

\* run_statements, Statement::Label
StatementLabel ==
    /\ npc = "body"
    /\ Top.pending # <<>>
    /\ LET label == Head(Top.pending)
           l == run_label(resolver, label)
       IN  /\ last' = [kind |-> "Label", ok |-> l.ok, label |-> label]
           /\ used' = used
           /\ IF l.ok
              THEN /\ result' = Append(result, [src |-> <<label>>, list |-> Top.uid] @@ l.out)
                   /\ frames' = [frames EXCEPT ![Len(frames)].pending = Tail(@)]
                   /\ UNCHANGED <<npc, resolver, fn_decl, directives, nerr, intro, opened>>
              ELSE Raise(l.r, l.err)

\* run_statements, Statement::Variable
StatementVariable(variable) ==
    /\ npc = "body"
    /\ used < MaxInput
    /\ \E m \in {run_multivariable(resolver, result, variable)} :
       \E n \in {Len(m.result) - Len(result)} :
           /\ last' = [kind |-> "Variable", ok |-> m.ok, variable |-> variable,
                       before |-> Len(result), ids_before |-> resolver.current_id]
           /\ used' = used + 1
           /\ IF m.ok
              THEN /\ resolver' = m.r
                   /\ result' = m.result
                   /\ intro' = intro \o
                          [i \in 1 .. n |->
                              [op |-> "add",
                               name |-> IF variable.count = None THEN variable.var.name
                                        ELSE variable.var.name \o ToDecimal(i - 1),
                               id |-> m.result[Len(result) + i].name, scope |-> Top.uid]]
                   /\ UNCHANGED <<npc, frames, fn_decl, directives, nerr, opened>>
              ELSE Raise(m.r, m.err)

\* run_statements, Statement::Instruction
StatementInstruction(inst) ==
    /\ npc = "body"
    /\ used < MaxInput
    /\ LET i == run_predicated(resolver, inst)
       IN  /\ last' = [kind |-> "Instruction", ok |-> i.ok, inst |-> inst,
                       pending |-> Top.pending]
           /\ used' = used + 1
           /\ IF i.ok
              THEN /\ result' = Append(result,
                          [src |-> inst.args, src_pred |-> inst.pred, list |-> Top.uid] @@ i.out)
                   /\ UNCHANGED <<npc, resolver, frames, fn_decl, directives, nerr, intro, opened>>
              ELSE Raise(resolver, i.err)

\* run_statements, Statement::Block: the scope and the pre-pass of the nested list
BlockBegin(labels) ==
    /\ npc = "body"
    /\ Len(frames) <= MaxDepth
    /\ used + 1 + Len(labels) <= MaxInput
    /\ LET l == hoist_labels(block_enter(resolver), labels)
       IN  /\ last' = [kind |-> "BlockBegin", ok |-> l.ok]
           /\ used' = used + 1 + Len(labels)
           /\ IF l.ok
              THEN /\ resolver' = l.r
                   /\ frames' = Append(frames, [uid |-> opened + 1, kind |-> "block",
                                                pending |-> labels, src |-> None])
                   /\ intro' = intro \o IntroOf("add", labels, l.ids, opened + 1)
                   /\ opened' = opened + 1
                   /\ UNCHANGED <<npc, result, fn_decl, directives, nerr>>
              ELSE Raise(l.r, l.err)

\* run_statements, Statement::Block: the nested list is done
BlockEnd ==
    /\ npc = "body"
    /\ Top.kind = "block"
    /\ Top.pending = <<>>
    /\ resolver' = block_exit(resolver)
    /\ frames' = SubSeq(frames, 1, Len(frames) - 1)
    /\ last' = [kind |-> "BlockEnd", closed |-> Top.uid]
    /\ UNCHANGED <<npc, result, fn_decl, directives, nerr, intro, opened, used>>

\* run_method, lines 52-60: the body is done
MethodEnd ==
    /\ npc = "body"
    /\ Top.kind = "method"
    /\ Top.pending = <<>>
    /\ LET t == run_method_tail(resolver, fn_decl[1], Some(result))
       IN  /\ resolver' = t.r
           /\ directives' = Append(directives, [src |-> Top.src] @@ t.out)
    /\ npc' = "module"
    /\ frames' = <<>>
    /\ result' = <<>>
    /\ fn_decl' = None
    /\ last' = [kind |-> "MethodEnd", closed |-> Top.uid]
    /\ UNCHANGED <<nerr, intro, opened, used>>

\* run, lines 13-14
RunEnd ==
    /\ npc = "module"
    /\ npc' = "done"
    /\ resolver' = end_scope(resolver)
    /\ last' = [kind |-> "RunEnd"]
    /\ UNCHANGED <<frames, result, fn_decl, directives, nerr, intro, opened, used>>


(***************************************************************************)
(* emit_llvm.rs: the LLVM type / address-space mapper.                     *)
(* A PTX type is a record [k, scalar, size, dims, space]:                  *)
(*   Scalar(s); Vector(size, s); Array(vec, s, dims) with size the packed  *)
(*   width (0 for None); Pointer(s, space).                                *)
(* An LLVM type is its textual form.  A call ends "ok", "err" (it returned *)
(* Err(err)) or "panic" (it reached todo!() and the process aborted).      *)
(***************************************************************************)
GENERIC_ADDRESS_SPACE  == 0
GLOBAL_ADDRESS_SPACE   == 1
SHARED_ADDRESS_SPACE   == 3
CONSTANT_ADDRESS_SPACE == 4
PRIVATE_ADDRESS_SPACE  == 5

StateSpaces == {"Reg", "Generic", "Param", "ParamEntry", "ParamFunc", "Local",
                "Global", "Const", "Shared", "SharedCta", "SharedCluster"}

ScalarTypes == {"Pred", "S8", "B8", "U8", "B16", "U16", "S16", "S32", "B32", "U32",
                "U64", "S64", "B64", "B128", "F16", "F32", "F64", "BF16",
                "U16x2", "S16x2", "F16x2", "BF16x2"}

Scalar(s)          == [k |-> "Scalar",  scalar |-> s, size |-> 0, dims |-> <<>>, space |-> ""]
Vector(n, s)       == [k |-> "Vector",  scalar |-> s, size |-> n, dims |-> <<>>, space |-> ""]
Array(vec, s, d)   == [k |-> "Array",   scalar |-> s, size |-> vec, dims |-> d, space |-> ""]
Pointer(s, space)  == [k |-> "Pointer", scalar |-> s, size |-> 0, dims |-> <<>>, space |-> space]

TyOk(t)  == [st |-> "ok", err |-> "", ty |-> t]
TyErr(e) == [st |-> "err", err |-> e, ty |-> ""]
TyPanic  == [st |-> "panic", err |-> "", ty |-> ""]

\* get_state_space with Local mapped to the shared address space
get_state_space_local_shared(space) ==
    CASE space = "Reg"           -> [st |-> "ok", err |-> "", as |-> PRIVATE_ADDRESS_SPACE]
      [] space = "Generic"       -> [st |-> "ok", err |-> "", as |-> GENERIC_ADDRESS_SPACE]
      [] space = "Param"         -> [st |-> "err", err |-> "Todo", as |-> 0]
      [] space = "ParamEntry"    -> [st |-> "ok", err |-> "", as |-> CONSTANT_ADDRESS_SPACE]
      [] space = "ParamFunc"     -> [st |-> "err", err |-> "Todo", as |-> 0]
      [] space = "Local"         -> [st |-> "ok", err |-> "", as |-> SHARED_ADDRESS_SPACE]
      [] space = "Global"        -> [st |-> "ok", err |-> "", as |-> GLOBAL_ADDRESS_SPACE]
      [] space = "Const"         -> [st |-> "ok", err |-> "", as |-> CONSTANT_ADDRESS_SPACE]
      [] space = "Shared"        -> [st |-> "ok", err |-> "", as |-> SHARED_ADDRESS_SPACE]
      [] space = "SharedCta"     -> [st |-> "err", err |-> "Todo", as |-> 0]
      [] space = "SharedCluster" -> [st |-> "err", err |-> "Todo", as |-> 0]

\* get_state_space
get_state_space(space) ==
    CASE space = "Reg"           -> [st |-> "ok", err |-> "", as |-> PRIVATE_ADDRESS_SPACE]
      [] space = "Generic"       -> [st |-> "ok", err |-> "", as |-> GENERIC_ADDRESS_SPACE]
      [] space = "Param"         -> [st |-> "err", err |-> "Todo", as |-> 0]
      [] space = "ParamEntry"    -> [st |-> "ok", err |-> "", as |-> CONSTANT_ADDRESS_SPACE]
      [] space = "ParamFunc"     -> [st |-> "err", err |-> "Todo", as |-> 0]
      [] space = "Local"         -> [st |-> "ok", err |-> "", as |-> PRIVATE_ADDRESS_SPACE]
      [] space = "Global"        -> [st |-> "ok", err |-> "", as |-> GLOBAL_ADDRESS_SPACE]
      [] space = "Const"         -> [st |-> "ok", err |-> "", as |-> CONSTANT_ADDRESS_SPACE]
      [] space = "Shared"        -> [st |-> "ok", err |-> "", as |-> SHARED_ADDRESS_SPACE]
      [] space = "SharedCta"     -> [st |-> "err", err |-> "Todo", as |-> 0]
      [] space = "SharedCluster" -> [st |-> "err", err |-> "Todo", as |-> 0]

\* LLVMPointerTypeInContext(context, address_space): an opaque pointer type
LLVMPointerType(as) == "ptr addrspace(" \o ToDecimal(as) \o ")"

\* LLVMVectorType(element, count)
LLVMVectorType(t, n) == "<" \o ToDecimal(n) \o " x " \o t \o ">"

\* LLVMArrayType2(element, count)
LLVMArrayType2(t, n) == "[" \o ToDecimal(n) \o " x " \o t \o "]"

\* get_pointer_type
get_pointer_type(to_space) ==
    LET a == get_state_space(to_space)
    IN  IF a.st = "ok" THEN TyOk(LLVMPointerType(a.as)) ELSE TyErr(a.err)

\* get_scalar_type: the packed types are todo!()
get_scalar_type(type_) ==
    CASE type_ = "Pred"                    -> TyOk("i1")
      [] type_ \in {"S8", "B8", "U8"}      -> TyOk("i8")
      [] type_ \in {"B16", "U16", "S16"}   -> TyOk("i16")
      [] type_ \in {"S32", "B32", "U32"}   -> TyOk("i32")
      [] type_ \in {"U64", "S64", "B64"}   -> TyOk("i64")
      [] type_ = "B128"                    -> TyOk("i128")
      [] type_ = "F16"                     -> TyOk("half")
      [] type_ = "F32"                     -> TyOk("float")
      [] type_ = "F64"                     -> TyOk("double")
      [] type_ = "BF16"                    -> TyOk("bfloat")
      [] type_ \in {"U16x2", "S16x2", "F16x2", "BF16x2"} -> TyPanic

\* the dimensions folded from the first one on
RECURSIVE fold_dimensions(_, _)
fold_dimensions(dimensions, underlying_type) ==
    IF dimensions = <<>> THEN underlying_type
    ELSE fold_dimensions(Tail(dimensions), LLVMArrayType2(underlying_type, Head(dimensions)))

\* dimensions.iter().rfold(underlying_type, |result, dimension| LLVMArrayType2(result, dimension))
RECURSIVE rfold_dimensions(_, _)
rfold_dimensions(dimensions, underlying_type) ==
    IF dimensions = <<>> THEN underlying_type
    ELSE rfold_dimensions(SubSeq(dimensions, 1, Len(dimensions) - 1),
                          LLVMArrayType2(underlying_type, dimensions[Len(dimensions)]))

\* get_type
get_type(type_) ==
    LET base == get_scalar_type(type_.scalar)
    IN  CASE type_.k = "Scalar"  -> base
          [] type_.k = "Vector"  ->
                IF base.st = "ok" THEN TyOk(LLVMVectorType(base.ty, type_.size)) ELSE base
          [] type_.k = "Array"   ->
                IF base.st # "ok" THEN base
                ELSE LET underlying_type == IF type_.size # 0
                                            THEN LLVMVectorType(base.ty, type_.size)
                                            ELSE base.ty
                     IN  IF type_.dims = <<>> THEN TyOk(LLVMArrayType2(underlying_type, 0))
                         ELSE TyOk(rfold_dimensions(type_.dims, underlying_type))
          [] type_.k = "Pointer" -> get_pointer_type(type_.space)

\* get_input_argument_type with every state space treated as a register
get_input_argument_type_by_value(v_type, state_space) ==
    IF state_space = "ParamEntry"
    THEN LET a == get_state_space(state_space)
         IN  IF a.st = "ok" THEN TyOk(LLVMPointerType(a.as)) ELSE TyErr(a.err)
    ELSE get_type(v_type)

\* get_input_argument_type
get_input_argument_type(v_type, state_space) ==
    CASE state_space = "ParamEntry" ->
            LET a == get_state_space(state_space)
            IN  IF a.st = "ok" THEN TyOk(LLVMPointerType(a.as)) ELSE TyErr(a.err)
      [] state_space = "Reg" -> get_type(v_type)
      [] OTHER -> TyErr("Unreachable")

\* input_args.collect::<Result<Vec<_>, _>>()?: the argument types in order,
\* up to the first that is not Ok
RECURSIVE collect_input_args(_, _)
collect_input_args(args, acc) ==
    IF args = <<>> THEN [st |-> "ok", err |-> "", tys |-> acc]
    ELSE With(get_input_argument_type(Head(args).v_type, Head(args).state_space), LAMBDA t :
            IF t.st = "ok" THEN collect_input_args(Tail(args), Append(acc, t.ty))
            ELSE [st |-> t.st, err |-> t.err, tys |-> <<>>])

\* get_function_type: the input arguments first, then the return type
\* (none: void, one: its type, more: todo!())
get_function_type(return_args, input_args) ==
    With(collect_input_args(input_args, <<>>), LAMBDA i :
    With(CASE Len(return_args) = 0 -> TyOk("void")
           [] Len(return_args) = 1 -> get_type(return_args[1].v_type)
           [] OTHER -> TyPanic, LAMBDA r :
        IF i.st # "ok" THEN [st |-> i.st, err |-> i.err, ret |-> "", params |-> <<>>]
        ELSE IF r.st # "ok" THEN [st |-> r.st, err |-> r.err, ret |-> "", params |-> <<>>]
        ELSE [st |-> "ok", err |-> "", ret |-> r.ty, params |-> i.tys]))

(***************************************************************************)
(* emit_llvm.rs: the LLVM module under construction and the resolver.      *)
(*   e.module     the functions added so far; a function has basic blocks, *)
(*                a block a list of instructions                           *)
(*   e.values     ResolveIdent.values: id -> LLVM value                    *)
(*   e.words      ResolveIdent.words: id -> interned NUL-terminated name   *)
(*   e.builder    insertion block of ModuleEmitContext.builder, as         *)
(*                <<function, block>> (instructions go to the block's end) *)
(*   e.variables_builder   the same for MethodEmitContext.variables_builder*)
(*   e.method     the function MethodEmitContext.method                    *)
(*   e.serial     number of instructions built so far (names their values) *)
(*   e.registered history: id -> the values registered for it, in order    *)
(* An LLVM value is a record [k, f, n, t]: a function (f), a parameter     *)
(* (n of f), the result of instruction number n, or a constant n of type t.*)
(***************************************************************************)
FnValue(f)       == [k |-> "fn",    f |-> f, n |-> 0, t |-> ""]
ParamValue(f, i) == [k |-> "param", f |-> f, n |-> i, t |-> ""]
InstValue(n)     == [k |-> "inst",  f |-> 0, n |-> n, t |-> ""]
ConstValue(t, n) == [k |-> "const", f |-> 0, n |-> n, t |-> t]

NoBlock == <<0, 0>>

NewEmit == [module |-> <<>>, values |-> EmptyMap, words |-> EmptyMap,
            builder |-> NoBlock, variables_builder |-> NoBlock, method |-> 0, serial |-> 0,
            registered |-> EmptyMap]

Instruction(op, n, name, ty, ops) ==
    [op |-> op, val |-> n, name |-> name, ty |-> ty, ops |-> ops,
     as |-> 0, align |-> 0, target |-> 0, space |-> ""]

IsTerminator(inst) == inst.op \in {"br", "ret"}

\* LLVMGetBasicBlockTerminator: the last instruction of the block, if it is a terminator
HasTerminator(block) == block.insts # <<>> /\ IsTerminator(block.insts[Len(block.insts)])

\* an instruction built by a builder positioned at the start of a block
Build_at_start(e, at, inst) ==
    [e EXCEPT !.module[at[1]].blocks[at[2]].insts = <<inst>> \o @,
              !.serial = @ + 1]

\* an instruction built by a builder positioned at the end of a block
Build(e, at, inst) ==
    [e EXCEPT !.module[at[1]].blocks[at[2]].insts = Append(@, inst),
              !.serial = @ + 1]

\* LLVMAppendBasicBlockInContext
AppendBasicBlock(e, f, name) ==
    [e EXCEPT !.module[f].blocks = Append(@, [name |-> name, insts |-> <<>>])]

\* ResolveIdent::get_or_ad_impl: the name of an id is the id in decimal, kept NUL-terminated
get_or_add_impl(e, word) ==
    IF word \in DOMAIN e.words THEN e
    ELSE [e EXCEPT !.words = (word :> [text |-> ToDecimal(word), nul |-> TRUE]) @@ @]

\* ResolveIdent::get_or_add / get_or_add_raw: the name without its NUL
get_or_add(e, word) == get_or_add_impl(e, word).words[word].text

\* ResolveIdent::register with a value once registered kept
register_first_wins(e, word, v) ==
    IF word \in DOMAIN e.values
    THEN [e EXCEPT !.registered[word] = Append(@, v)]
    ELSE [e EXCEPT !.values = (word :> v) @@ @, !.registered = (word :> <<v>>) @@ @]

\* ResolveIdent::register: HashMap::insert, the last writer wins
register(e, word, v) ==
    IF word \in DOMAIN e.values
    THEN [e EXCEPT !.values[word] = v, !.registered[word] = Append(@, v)]
    ELSE [e EXCEPT !.values = (word :> v) @@ @, !.registered = (word :> <<v>>) @@ @]

\* ResolveIdent::value
value(e, word) ==
    IF word \in DOMAIN e.values
    THEN [st |-> "ok", err |-> "", v |-> e.values[word]]
    ELSE [st |-> "err", err |-> "Unreachable", v |-> FnValue(0)]

Ok(e)        == [st |-> "ok", err |-> "", e |-> e]
Err(e, err)  == [st |-> "err", err |-> err, e |-> e]
Abort(e)     == [st |-> "panic", err |-> "", e |-> e]

\* Result of a type call carried to the caller by `?`
Escalate(e, t) == IF t.st = "panic" THEN Abort(e) ELSE Err(e, t.err)

(***************************************************************************)
(* MethodEmitContext: one operator per statement emitter.                  *)
(***************************************************************************)
\* emit_variable with the alloca built by the builder of the body
emit_variable_in_body(e, var) ==
    LET t == get_type(var.v_type)
        a == get_state_space(var.state_space)
        w == get_or_add_impl(e, var.name)
        alloca == [Instruction("alloca", e.serial + 1, get_or_add(e, var.name), t.ty, <<>>)
                      EXCEPT !.as = a.as, !.space = var.state_space,
                             !.align = IF var.align = None THEN 0 ELSE var.align[1]]
        b == register(Build(w, e.builder, alloca), var.name, InstValue(e.serial + 1))
    IN  IF t.st # "ok" THEN Escalate(e, t)
        ELSE IF a.st # "ok" THEN Err(e, a.err)
        ELSE IF var.array_init # <<>> THEN Abort(b)
        ELSE Ok(b)

\* emit_variable: an alloca at the variables builder, in the address space of
\* the state space; non-empty array initializers are todo!()
emit_variable(e, var) ==
    LET t == get_type(var.v_type)
        a == get_state_space(var.state_space)
        w == get_or_add_impl(e, var.name)
        alloca == [Instruction("alloca", e.serial + 1, get_or_add(e, var.name), t.ty, <<>>)
                      EXCEPT !.as = a.as, !.space = var.state_space,
                             !.align = IF var.align = None THEN 0 ELSE var.align[1]]
        b == register(Build(w, e.variables_builder, alloca), var.name, InstValue(e.serial + 1))
    IN  IF t.st # "ok" THEN Escalate(e, t)
        ELSE IF a.st # "ok" THEN Err(e, a.err)
        ELSE IF var.array_init # <<>> THEN Abort(b)
        ELSE Ok(b)

\* emit_label with the branch built whatever the insertion block ends in
emit_label_always_branches(e, label) ==
    LET w == AppendBasicBlock(get_or_add_impl(e, label), e.method, get_or_add(e, label))
        block == <<e.method, Len(w.module[e.method].blocks)>>
        br == [Instruction("br", e.serial + 1, "", "void", <<>>) EXCEPT !.target = block[2]]
    IN  Ok([Build(w, e.builder, br) EXCEPT !.builder = block])

\* emit_label: a new block at the end of the function, a branch to it from
\* the insertion block unless that one ends in a terminator, the builder moved
emit_label(e, label) ==
    LET w == AppendBasicBlock(get_or_add_impl(e, label), e.method, get_or_add(e, label))
        block == <<e.method, Len(w.module[e.method].blocks)>>
        last_block == w.module[e.builder[1]].blocks[e.builder[2]]
        br == [Instruction("br", e.serial + 1, "", "void", <<>>) EXCEPT !.target = block[2]]
        b == IF HasTerminator(last_block) THEN w ELSE Build(w, e.builder, br)
    IN  Ok([b EXCEPT !.builder = block])

\* emit_store_var
emit_store_var(e, store) ==
    LET ptr == value(e, store.src1)
        val == value(e, store.src2)
    IN  IF ptr.st # "ok" THEN Err(e, ptr.err)
        ELSE IF val.st # "ok" THEN Err(e, val.err)
        ELSE Ok(Build(e, e.builder,
                      Instruction("store", e.serial + 1, "", "void", <<val.v, ptr.v>>)))

\* ResolveIdent::with_result around LLVMBuildLoad2, shared by emit_ld and emit_load_variable
build_load(e, dst, type_, ptr) ==
    register(Build(get_or_add_impl(e, dst), e.builder,
                   Instruction("load", e.serial + 1, get_or_add(e, dst), type_, <<ptr>>)),
             dst, InstValue(e.serial + 1))

\* emit_ld: non-coherent and non-weak loads are todo!()
emit_ld(e, inst) ==
    LET t == get_type(inst.typ)
        ptr == value(e, inst.src1)
    IN  IF inst.non_coherent THEN Abort(e)
        ELSE IF inst.qualifier # "Weak" THEN Abort(e)
        ELSE IF t.st # "ok" THEN Escalate(e, t)
        ELSE IF ptr.st # "ok" THEN Err(e, ptr.err)
        ELSE Ok(build_load(e, inst.dst, t.ty, ptr.v))

\* emit_load_variable: a member index is todo!()
emit_load_variable(e, var) ==
    LET t == get_type(var.typ)
        ptr == value(e, var.src1)
    IN  IF var.member_index # None THEN Abort(e)
        ELSE IF t.st # "ok" THEN Escalate(e, t)
        ELSE IF ptr.st # "ok" THEN Err(e, ptr.err)
        ELSE Ok(build_load(e, var.dst, t.ty, ptr.v))

\* emit_conversion: only BitToPtr is lowered
emit_conversion(e, conversion) ==
    LET src == value(e, conversion.src1)
        t == get_pointer_type(conversion.space)
    IN  IF conversion.flag # "BitToPtr" THEN Abort(e)
        ELSE IF src.st # "ok" THEN Err(e, src.err)
        ELSE IF t.st # "ok" THEN Err(e, t.err)
        ELSE Ok(register(
                  Build(get_or_add_impl(e, conversion.dst), e.builder,
                        [Instruction("inttoptr", e.serial + 1, get_or_add(e, conversion.dst),
                                     t.ty, <<src.v>>)
                            EXCEPT !.space = conversion.space]),
                  conversion.dst, InstValue(e.serial + 1)))

\* x as u64 of an i64: the 64 bits as four 16-bit limbs, least significant
\* first (two's complement, so a negative x sign-extends)
AsU64(x) ==
    LET limb(k) == k % 65536
        up(k) == k \div 65536
    IN  <<limb(x), limb(up(x)), limb(up(up(x))), limb(up(up(up(x))))>>

\* emit_constant: get_scalar_type is not fallible here, packed types abort
emit_constant(e, constant) ==
    LET t == get_scalar_type(constant.typ.scalar)
        v == AsU64(constant.imm)
    IN  IF t.st # "ok" THEN Abort(e)
        ELSE Ok(register(e, constant.dst, ConstValue(t.ty, v)))

\* emit_add with the instruction built and bound before the sources are checked
emit_add_bind_first(e, inst) ==
    LET src1 == value(e, inst.src1)
        src2 == value(e, inst.src2)
        op == IF inst.flag = "Integer" THEN "add" ELSE "fadd"
        b == register(
                  Build(get_or_add_impl(e, inst.dst), e.builder,
                        Instruction(op, e.serial + 1, get_or_add(e, inst.dst), "",
                                    <<src1.v, src2.v>>)),
                  inst.dst, InstValue(e.serial + 1))
    IN  IF src1.st # "ok" THEN Err(b, src1.err)
        ELSE IF src2.st # "ok" THEN Err(b, src2.err)
        ELSE Ok(b)

\* emit_add: the arithmetic details choose between add and fadd
emit_add(e, inst) ==
    LET src1 == value(e, inst.src1)
        src2 == value(e, inst.src2)
        op == IF inst.flag = "Integer" THEN "add" ELSE "fadd"
    IN  IF src1.st # "ok" THEN Err(e, src1.err)
        ELSE IF src2.st # "ok" THEN Err(e, src2.err)
        ELSE Ok(register(
                  Build(get_or_add_impl(e, inst.dst), e.builder,
                        Instruction(op, e.serial + 1, get_or_add(e, inst.dst), "",
                                    <<src1.v, src2.v>>)),
                  inst.dst, InstValue(e.serial + 1)))

\* emit_st: the values are looked up before the qualifier is checked
emit_st(e, inst) ==
    LET ptr == value(e, inst.src1)
        val == value(e, inst.src2)
    IN  IF ptr.st # "ok" THEN Err(e, ptr.err)
        ELSE IF val.st # "ok" THEN Err(e, val.err)
        ELSE IF inst.qualifier # "Weak" THEN Abort(e)
        ELSE Ok(Build(e, e.builder,
                      Instruction("store", e.serial + 1, "", "void", <<val.v, ptr.v>>)))

\* emit_ret
emit_ret(e) == Ok(Build(e, e.builder, Instruction("ret", e.serial + 1, "", "void", <<>>)))

\* emit_mov with the source copied by an instruction of its own
emit_mov_by_copy(e, inst) ==
    LET src == value(e, inst.src1)
    IN  IF src.st # "ok" THEN Err(e, src.err)
        ELSE Ok(register(
                  Build(get_or_add_impl(e, inst.dst), e.builder,
                        Instruction("bitcast", e.serial + 1, get_or_add(e, inst.dst), "",
                                    <<src.v>>)),
                  inst.dst, InstValue(e.serial + 1)))

\* emit_mov: no instruction, the destination is bound to the value of the source
emit_mov(e, inst) ==
    LET src == value(e, inst.src1)
    IN  IF src.st # "ok" THEN Err(e, src.err)
        ELSE Ok(register(e, inst.dst, src.v))

\* the values of the arguments collected last argument first
RECURSIVE collect_values_reversed(_, _, _)
collect_values_reversed(e, args, acc) ==
    IF args = <<>> THEN [st |-> "ok", err |-> "", vs |-> acc]
    ELSE LET v == value(e, Head(args))
         IN  IF v.st = "ok" THEN collect_values_reversed(e, Tail(args), <<v.v>> \o acc)
             ELSE [st |-> "err", err |-> v.err, vs |-> <<>>]

\* arguments.input_arguments.iter().map(|arg| self.resolver.value(*arg)).collect::<Result<..>>()?
RECURSIVE collect_values(_, _, _)
collect_values(e, args, acc) ==
    IF args = <<>> THEN [st |-> "ok", err |-> "", vs |-> acc]
    ELSE LET v == value(e, Head(args))
         IN  IF v.st = "ok" THEN collect_values(e, Tail(args), Append(acc, v.v))
             ELSE [st |-> "err", err |-> v.err, vs |-> <<>>]

\* the callee taken as a null function when no function is registered for it
callee_or_null(e, word) ==
    IF word \in DOMAIN e.values
    THEN [st |-> "ok", err |-> "", v |-> e.values[word]]
    ELSE [st |-> "ok", err |-> "", v |-> FnValue(0)]

\* emit_call, line 582: self.resolver.value(arguments.func)?
callee_value(e, word) == value(e, word)

\* emit_call: a build with debug assertions panics on a declared argument
\* outside .reg; one return value at most (more is todo!())
emit_call(e, inst) ==
    LET shape_ok == \/ (inst.ret_types = <<>> /\ inst.rets = <<>>)
                    \/ (Len(inst.ret_types) = 1 /\ Len(inst.rets) = 1)
        name == IF inst.rets = <<>> THEN "" ELSE get_or_add(e, inst.rets[1])
    IN  IF debug_assertions
           /\ \E i \in 1 .. Len(inst.ret_types) : inst.ret_types[i].state_space # "Reg"
        THEN Abort(e)
        ELSE IF debug_assertions
           /\ \E i \in 1 .. Len(inst.arg_types) : inst.arg_types[i].state_space # "Reg"
        THEN Abort(e)
        ELSE IF ~shape_ok THEN Abort(e)
        ELSE
        With(IF inst.rets = <<>> THEN e ELSE get_or_add_impl(e, inst.rets[1]), LAMBDA w :
        With(get_function_type(inst.ret_types, inst.arg_types), LAMBDA type_ :
        With(collect_values(w, inst.args, <<>>), LAMBDA input_arguments :
        With(callee_value(w, inst.src1), LAMBDA callee :
            IF type_.st = "panic" THEN Abort(w)
            ELSE IF type_.st = "err" THEN Err(w, type_.err)
            ELSE IF input_arguments.st # "ok" THEN Err(w, input_arguments.err)
            ELSE IF callee.st # "ok" THEN Err(w, callee.err)
            ELSE With(Build(w, e.builder,
                            Instruction("call", e.serial + 1, name, type_.ret,
                                        <<callee.v>> \o input_arguments.vs)), LAMBDA b :
                 IF inst.rets = <<>> THEN Ok(b)
                 ELSE Ok(register(b, inst.rets[1], InstValue(e.serial + 1))))))))

\* emit_instruction: Mov, Ld, Add, St, Call and Ret are lowered, every other opcode is todo!()
emit_instruction(e, inst) ==
    CASE inst.opcode = "Mov"  -> emit_mov(e, inst)
      [] inst.opcode = "Ld"   -> emit_ld(e, inst)
      [] inst.opcode = "Add"  -> emit_add(e, inst)
      [] inst.opcode = "St"   -> emit_st(e, inst)
      [] inst.opcode = "Call" -> emit_call(e, inst)
      [] inst.opcode = "Ret"  -> emit_ret(e)
      [] OTHER                -> Abort(e)

\* emit_statement: Conditional, RetValue, PtrAccess, RepackVector,
\* FunctionPointer and VectorAccess are todo!()
emit_statement(e, statement) ==
    CASE statement.kind = "Variable"    -> emit_variable(e, statement)
      [] statement.kind = "Label"       -> emit_label(e, statement.dst)
      [] statement.kind = "Instruction" -> emit_instruction(e, statement)
      [] statement.kind = "LoadVar"     -> emit_load_variable(e, statement)
      [] statement.kind = "StoreVar"    -> emit_store_var(e, statement)
      [] statement.kind = "Conversion"  -> emit_conversion(e, statement)
      [] statement.kind = "Constant"    -> emit_constant(e, statement)
      [] OTHER                          -> Abort(e)

(***************************************************************************)
(* ModuleEmitContext::emit_method.                                         *)
(***************************************************************************)
\* GlobalStringIdentResolver2.ident_map as the emitter receives it: id 1 is
\* the function f, id 2 has no name, id 3 has no entry
IdentMap == (1 :> [name |-> Some("f")]) @@ (2 :> [name |-> None])

CCallConv            == "C"
AMDGPUKernelCallConv == "AMDGPU_KERNEL"

\* Module::getOrInsert of LLVM's symbol table: a name already taken by a
\* function of the module gets a numeric suffix
RECURSIVE UniqueName(_, _, _)
UniqueName(module, name, n) ==
    LET candidate == IF n = 0 THEN name ELSE name \o "." \o ToDecimal(n)
    IN  IF \E f \in 1 .. Len(module) : module[f].name = candidate
        THEN UniqueName(module, name, n + 1)
        ELSE candidate

\* LLVMAddFunction: a function of the given type, C calling convention, no
\* attributes, no blocks
LLVMAddFunction(e, name, fn_type) ==
    [e EXCEPT !.module = Append(@, [name |-> UniqueName(e.module, name, 0),
                                    ret |-> fn_type.ret, params |-> fn_type.params,
                                    param_names |-> [i \in 1 .. Len(fn_type.params) |-> ""],
                                    attrs |-> {}, call_conv |-> CCallConv,
                                    blocks |-> <<>>])]

\* the name of a method with the kernel name taken before import_as
method_name_kernel_first(method) ==
    IF method.name.kind = "Kernel" THEN [st |-> "ok", name |-> method.name.text]
    ELSE IF method.import_as # None THEN [st |-> "ok", name |-> method.import_as[1]]
    ELSE IF method.name.id \notin DOMAIN IdentMap THEN [st |-> "panic", name |-> ""]
    ELSE IF IdentMap[method.name.id].name = None THEN [st |-> "err", name |-> ""]
    ELSE [st |-> "ok", name |-> IdentMap[method.name.id].name[1]]

\* emit_method, lines 222-229: import_as, else the kernel name, else the name
\* in the identifier table (indexing a missing id panics)
method_name(method) ==
    IF method.import_as # None THEN [st |-> "ok", name |-> method.import_as[1]]
    ELSE IF method.name.kind = "Kernel" THEN [st |-> "ok", name |-> method.name.text]
    ELSE IF method.name.id \notin DOMAIN IdentMap THEN [st |-> "panic", name |-> ""]
    ELSE IF IdentMap[method.name.id].name = None THEN [st |-> "err", name |-> ""]
    ELSE [st |-> "ok", name |-> IdentMap[method.name.id].name[1]]

\* the attribute index of parameter i (counted from 0): index 0 is the return value
byref_index_unshifted(i) == i

byref_index(i) == i + 1

\* emit_method, lines 243-261: name and register every parameter, and give
\* the parameters of a kernel their byref attribute
RECURSIVE emit_params(_, _, _, _)
emit_params(e, f, method, i) ==
    IF i >= Len(method.input_arguments) THEN Ok(e)
    ELSE LET param == method.input_arguments[i + 1]
         IN  With(register([get_or_add_impl(e, param.name)
                               EXCEPT !.module[f].param_names[i + 1] = get_or_add(e, param.name)],
                           param.name, ParamValue(f, i)), LAMBDA reg :
             With(get_type(param.v_type), LAMBDA t :
                IF method.name.kind # "Kernel" THEN emit_params(reg, f, method, i + 1)
                ELSE IF t.st # "ok" THEN Escalate(reg, t)
                ELSE emit_params(
                        [reg EXCEPT !.module[f].attrs =
                            @ \cup {[index |-> byref_index(i), kind |-> "byref", ty |-> t.ty]}],
                        f, method, i + 1)))

\* the calling convention with the test on the method name inverted
call_convention_swapped(method) ==
    IF method.name.kind = "Kernel" THEN CCallConv ELSE AMDGPUKernelCallConv

\* emit_method, lines 262-266
call_convention(method) ==
    IF method.name.kind = "Kernel" THEN AMDGPUKernelCallConv ELSE CCallConv

\* emit_method, lines 221-267: everything up to the body
emit_method_head(e, method) ==
    With(method_name(method), LAMBDA name :
    With(get_function_type(method.return_arguments, method.input_arguments), LAMBDA fn_type :
        IF name.st = "panic" THEN Abort(e)
        ELSE IF name.st = "err" THEN Err(e, "Unreachable")
        ELSE IF fn_type.st = "panic" THEN Abort(e)
        ELSE IF fn_type.st = "err" THEN Err(e, fn_type.err)
        ELSE With(LLVMAddFunction(e, name.name, fn_type), LAMBDA added :
             With(IF method.name.kind = "Func"
                  THEN register(added, method.name.id, FnValue(Len(added.module)))
                  ELSE added, LAMBDA fn_ :
             With(emit_params(fn_, Len(fn_.module), method, 0), LAMBDA params :
                IF params.st # "ok" THEN params
                ELSE Ok([params.e EXCEPT !.module[Len(fn_.module)].call_conv =
                                            call_convention(method)]))))))

\* emit_method, lines 268-276: the block of the allocas and the block of the
\* body, a builder at the end of each
emit_method_blocks(e) ==
    LET f == Len(e.module)
        b == AppendBasicBlock(AppendBasicBlock(e, f, ""), f, "")
    IN  [b EXCEPT !.variables_builder = <<f, 1>>, !.builder = <<f, 2>>, !.method = f]

\* the body left without the branch out of the block of the allocas
emit_method_close_no_branch(e) == e

\* emit_method, line 280: LLVMBuildBr(variables_builder, real_bb)
emit_method_close(e) ==
    Build(e, e.variables_builder,
          [Instruction("br", e.serial + 1, "", "void", <<>>) EXCEPT !.target = 2])

\* Module::verify with a failure reported whenever the status says so
verify_status_only(status, message) == IF status = 1 THEN "Err" ELSE "Ok"

\* Module::verify: status is what LLVMVerifyModule returned, message whether
\* it left a message behind
verify(status, message) ==
    IF status = 1 /\ message THEN "Err" ELSE "Ok"

(***************************************************************************)
(* Input of the emitter: Directive2 / Statement values.  A statement is a  *)
(* record with every field any statement has; the fields a kind does not   *)
(* have keep the value they have in Blank.                                 *)
(***************************************************************************)
Blank ==
    [kind |-> "", opcode |-> "", name |-> 0, dst |-> 0, src1 |-> 0, src2 |-> 0,
     v_type |-> Scalar("U32"), typ |-> Scalar("U32"), state_space |-> "Reg", space |-> "",
     align |-> None, array_init |-> <<>>, flag |-> "", qualifier |-> "Weak",
     non_coherent |-> FALSE, member_index |-> None, imm |-> 0,
     args |-> <<>>, rets |-> <<>>, arg_types |-> <<>>, ret_types |-> <<>>]

VariableStatement(id, type_, space) ==
    [Blank EXCEPT !.kind = "Variable", !.name = id, !.v_type = type_, !.state_space = space]

LabelStatement(id) == [Blank EXCEPT !.kind = "Label", !.dst = id]

InstructionStatement(opcode, dst, src1, src2) ==
    [Blank EXCEPT !.kind = "Instruction", !.opcode = opcode, !.dst = dst,
                  !.src1 = src1, !.src2 = src2, !.flag = "Integer"]

ConversionStatement(kind, dst, src, to_space) ==
    [Blank EXCEPT !.kind = "Conversion", !.flag = kind, !.dst = dst, !.src1 = src,
                  !.space = to_space]

ConstantStatement(dst, type_, kind, imm) ==
    [Blank EXCEPT !.kind = "Constant", !.dst = dst, !.typ = type_, !.flag = kind, !.imm = imm]

\* an argument of a method: ast::Variable<SpirvWord>
Argument(id, type_, space) ==
    [name |-> id, v_type |-> type_, state_space |-> space, align |-> None, array_init |-> <<>>]

Kernel(text) == [kind |-> "Kernel", text |-> text, id |-> 0]
Func(id)     == [kind |-> "Func", text |-> "", id |-> id]

Method(name, ra, ia, import_as) ==
    [name |-> name, return_arguments |-> ra, input_arguments |-> ia, import_as |-> import_as]

\* the methods of the general exploration
EmitMethods ==
    { Method(Kernel("k"), <<>>, <<Argument(4, Scalar("U64"), "ParamEntry"),
                                  Argument(5, Scalar("F32"), "ParamEntry")>>, None),
      Method(Func(1), <<Argument(6, Scalar("U32"), "Reg")>>,
                      <<Argument(4, Scalar("U32"), "Reg")>>, None),
      Method(Func(2), <<>>, <<>>, None),
      Method(Func(2), <<>>, <<>>, Some("x")),
      Method(Func(3), <<>>, <<>>, None),
      Method(Kernel("k"), <<>>, <<Argument(4, Pointer("U32", "Param"), "ParamEntry")>>, None),
      Method(Func(1), <<Argument(6, Scalar("U32"), "Reg"), Argument(7, Scalar("U32"), "Reg")>>,
                      <<>>, None) }

\* the statements of the general exploration
EmitStatements ==
    { VariableStatement(6, Scalar("U32"), "Reg"),
      [VariableStatement(7, Scalar("F32"), "Local") EXCEPT !.align = Some(4)],
      VariableStatement(6, Scalar("U32"), "Param"),
      [VariableStatement(7, Scalar("U32"), "Reg") EXCEPT !.array_init = <<1>>],
      LabelStatement(8),
      InstructionStatement("Ret", 0, 0, 0),
      InstructionStatement("Mov", 9, 4, 0),
      InstructionStatement("Add", 9, 4, 9),
      InstructionStatement("Bra", 0, 8, 0),
      InstructionStatement("Call", 0, 1, 0),
      [InstructionStatement("Call", 0, 1, 0)
          EXCEPT !.args = <<4>>, !.arg_types = <<Argument(0, Scalar("U32"), "Local")>>],
      ConstantStatement(9, Scalar("U64"), "U64", 1) }

(***************************************************************************)
(* emit_llvm::run as a state machine: a directive is taken when the loop   *)
(* of run reaches it, a statement when the loop of emit_method reaches it. *)
(***************************************************************************)
\* emit_llvm::run has not been called
EIdle ==
    /\ epc = "idle"
    /\ llvm = NewEmit
    /\ eerr = ""
    /\ verifier = None
    /\ bitcode = None
    /\ elast = [kind |-> "none", st |-> "ok", input |-> Blank]
    /\ eused = 0
    /\ emethod = None
    /\ emitted = <<>>
    /\ heap = <<>>
    /\ debug_assertions = TRUE

(***************************************************************************)
(* zluda_ml, impl_common.rs: system_get_driver_version.  The caller's      *)
(* buffer is a sequence of bytes, Some(buffer) behind a non-null pointer;   *)
(* offsets count from 0, so offset o is element o + 1.                     *)
(***************************************************************************)
\* const VERSION: &'static CStr = c"550.77", the bytes before the NUL
VERSION == <<53, 53, 48, 46, 55, 55>>

\* CStr::to_bytes_with_nul
to_bytes_with_nul(c) == Append(c, 0)

\* slice.copy_from_slice(src) on the first Len(src) bytes of the buffer
copy_from_slice(buffer, src) ==
    [i \in 1 .. Len(buffer) |-> IF i <= Len(src) THEN src[i] ELSE buffer[i]]

\* the version copied whole, whatever the length says
system_get_driver_version_whole(ptr, length) ==
    IF ptr = None
    THEN [ret |-> "ERROR_INVALID_ARGUMENT", mem |-> ptr, written |-> {}]
    ELSE LET version == to_bytes_with_nul(VERSION)
         IN  [ret |-> "SUCCESS", mem |-> Some(copy_from_slice(ptr[1], version)),
              written |-> 0 .. Len(version) - 1]

\* system_get_driver_version(result, length), ptr being result: ret is the
\* nvmlReturn_t, mem the buffer after
\* the call, written the offsets it stored to
system_get_driver_version(ptr, length) ==
    IF ptr = None
    THEN [ret |-> "ERROR_INVALID_ARGUMENT", mem |-> ptr, written |-> {}]
    ELSE LET version == to_bytes_with_nul(VERSION)
             copy_length == Min(length, Len(version))
             slice == copy_from_slice(ptr[1], SubSeq(version, 1, copy_length))
             terminated == IF copy_length > 0 THEN [slice EXCEPT ![copy_length] = 0]
                           ELSE slice
         IN  [ret |-> "SUCCESS", mem |-> Some(terminated), written |-> 0 .. copy_length - 1]

\* no call of system_get_driver_version
NvmlIdle == nvml = [pc |-> "idle"]

\* the buffers a caller passes: of the announced length or longer, filled
\* with one byte that is not in the version
Buffers ==
    { [i \in 1 .. size |-> fill] : size \in 0 .. MaxLength, fill \in {0, 170} }

\* a call about to be made: a null pointer, or a buffer of at least length bytes
NvmlCalls ==
    { [pc |-> "call", result |-> ptr, length |-> length] :
        ptr \in {None} \cup { Some(b) : b \in Buffers }, length \in 0 .. MaxLength }

Init == NInit /\ EIdle /\ NvmlIdle

Next ==
    \/ RunStart /\ UNCHANGED <<evars, nvml>>
    \/ \E v \in { Variable("f", AttrsA) } : DirectiveVariable(v) /\ UNCHANGED <<evars, nvml>>
    \/ \E d \in ParsedDeclarations : DeclareMethod(d) /\ UNCHANGED <<evars, nvml>>
    \/ \E d \in ParsedDeclarations, l \in LabelLists : MethodBegin(d, l) /\ UNCHANGED <<evars, nvml>>
    \/ StatementLabel /\ UNCHANGED <<evars, nvml>>
    \/ \E v \in ParsedMultiVariables : StatementVariable(v) /\ UNCHANGED <<evars, nvml>>
    \/ \E i \in ParsedInstructions : StatementInstruction(i) /\ UNCHANGED <<evars, nvml>>
    \/ \E l \in LabelLists : BlockBegin(l) /\ UNCHANGED <<evars, nvml>>
    \/ BlockEnd /\ UNCHANGED <<evars, nvml>>
    \/ MethodEnd /\ UNCHANGED <<evars, nvml>>
    \/ RunEnd /\ UNCHANGED <<evars, nvml>>

Spec == Init /\ [][Next]_vars

EInit ==
    /\ epc = "start"
    /\ llvm = NewEmit
    /\ eerr = ""
    /\ verifier = None
    /\ bitcode = None
    /\ elast = [kind |-> "none", st |-> "ok", input |-> Blank]
    /\ eused = 0
    /\ emethod = None
    /\ emitted = <<>>
    /\ heap = <<>>
    /\ debug_assertions \in BOOLEAN

NIdle ==
    /\ npc = "idle"
    /\ resolver = NewResolver
    /\ frames = <<>>
    /\ result = <<>>
    /\ fn_decl = None
    /\ directives = <<>>
    /\ nerr = None
    /\ intro = <<>>
    /\ last = [kind |-> "none"]
    /\ opened = 0
    /\ used = 0

\* LLVM...Create...: a new object of the kind, the n-th of its kind
Create(h, res) ==
    Append(h, [op |-> "create", res |-> res,
               n |-> 1 + Cardinality({i \in DOMAIN h : h[i].op = "create" /\ h[i].res = res})])

\* the objects the locals of run and of emit_method own, oldest first: what
\* was created and not disposed, but for the buffer moved out to the caller
Owned(h) ==
    SelectSeq(h, LAMBDA ev : /\ ev.op = "create"
                            /\ ev.res # "bitcode"
                            /\ \A i \in DOMAIN h : h[i] # [ev EXCEPT !.op = "dispose"])

\* the locals dropped oldest first
drop_locals_oldest_first(h) ==
    h \o [i \in 1 .. Len(Owned(h)) |-> [Owned(h)[i] EXCEPT !.op = "dispose"]]

\* the locals go out of scope: each Drop impl disposes its object, the
\* innermost frame first and each frame's locals in reverse declaration order
drop_locals(h) ==
    h \o [i \in 1 .. Len(Owned(h)) |-> [Owned(h)[Len(Owned(h)) + 1 - i] EXCEPT !.op = "dispose"]]

\* method_emitter goes out of scope at the end of emit_method
drop_method_emitter(h) ==
    Append(h, [op |-> "dispose", res |-> "variables_builder",
               n |-> Cardinality({i \in DOMAIN h : h[i].op = "create"
                                                    /\ h[i].res = "variables_builder"})])

\* a panic: the stack is unwound, or the process aborts as it is
unwind(h) == {drop_locals(h), h}

\* what the end of a step leaves of the objects
Leave(st, h) ==
    CASE st = "ok" -> {h}
      [] st = "err" -> {drop_locals(h)}
      [] st = "panic" -> unwind(h)

\* how a step of emit_method ends: on with the next step, Err out of run, or abort
Outcome(r, next) ==
    /\ llvm' = r.e
    /\ epc' = CASE r.st = "ok" -> next [] r.st = "err" -> "error" [] r.st = "panic" -> "panic"
    /\ eerr' = IF r.st = "err" THEN r.err ELSE eerr
    /\ UNCHANGED <<verifier, bitcode, debug_assertions>>

\* run, lines 170-172
EmitStart ==
    /\ epc = "start"
    /\ epc' = "module"
    /\ elast' = [kind |-> "start", st |-> "ok", input |-> Blank]
    /\ heap' = Create(Create(Create(heap, "context"), "module"), "builder")
    /\ UNCHANGED <<llvm, eerr, verifier, bitcode, eused, emethod, emitted, debug_assertions>>

\* run, line 175: Directive2::Variable is todo!()
EmitDirectiveVariable(max) ==
    /\ epc = "module"
    /\ eused < max
    /\ epc' = "panic"
    /\ eused' = eused + 1
    /\ elast' = [kind |-> "variable", st |-> "panic", input |-> Blank]
    /\ heap' \in unwind(heap)
    /\ UNCHANGED <<llvm, eerr, verifier, bitcode, emethod, emitted, debug_assertions>>

\* run, line 176: emit_method of a method without a body
EmitMethodDeclaration(method, max) ==
    /\ epc = "module"
    /\ eused < max
    /\ eused' = eused + 1
    /\ \E h \in {emit_method_head(llvm, method)} :
           /\ Outcome(h, "module")
           /\ emitted' = IF h.st = "ok"
                         THEN Append(emitted, [fn |-> Len(h.e.module), method |-> method,
                                               body |-> FALSE])
                         ELSE emitted
           /\ elast' = [kind |-> "method", st |-> h.st, input |-> method, body |-> FALSE,
                        fns |-> Len(llvm.module)]
           /\ heap' \in Leave(h.st, heap)
           /\ UNCHANGED emethod

\* run, line 176: emit_method of a method with a body, up to its first statement
EmitMethodBegin(method, max) ==
    /\ epc = "module"
    /\ eused < max
    /\ eused' = eused + 1
    /\ \E h \in {emit_method_head(llvm, method)} :
           /\ Outcome(IF h.st = "ok" THEN Ok(emit_method_blocks(h.e)) ELSE h, "body")
           /\ emethod' = IF h.st = "ok" THEN Some(method) ELSE emethod
           /\ elast' = [kind |-> "method", st |-> h.st, input |-> method, body |-> TRUE,
                        fns |-> Len(llvm.module)]
           /\ heap' \in Leave(h.st, IF h.st = "ok" THEN Create(heap, "variables_builder")
                                     ELSE heap)
           /\ UNCHANGED emitted

\* emit_method, lines 277-279: one statement of the body
EmitStatement(statement, max) ==
    /\ epc = "body"
    /\ eused < max
    /\ eused' = eused + 1
    /\ \E r \in {emit_statement(llvm, statement)} :
           /\ Outcome(r, "body")
           /\ elast' = [kind |-> "statement", st |-> r.st, input |-> statement,
                        serial |-> llvm.serial]
           /\ heap' \in Leave(r.st, heap)
           /\ UNCHANGED <<emethod, emitted>>

\* emit_method, lines 280-282: the statements are done
EmitMethodEnd ==
    /\ epc = "body"
    /\ epc' = "module"
    /\ llvm' = emit_method_close(llvm)
    /\ emitted' = Append(emitted, [fn |-> llvm.method, method |-> emethod[1], body |-> TRUE])
    /\ emethod' = None
    /\ elast' = [kind |-> "end", st |-> "ok", input |-> Blank]
    /\ heap' = drop_method_emitter(heap)
    /\ UNCHANGED <<eerr, verifier, bitcode, eused, debug_assertions>>

\* run, lines 179-183: the module is verified; a failure panics, otherwise
\* the bitcode is written
Finish(status, message) ==
    /\ epc = "module"
    /\ verifier' = Some([status |-> status, message |-> message])
    /\ IF verify(status, message) = "Err"
       THEN epc' = "panic" /\ bitcode' = None /\ heap' \in unwind(Create(heap, "message"))
       ELSE /\ epc' = "done" /\ bitcode' = Some(llvm.module)
            /\ heap' = drop_locals(Create(heap, "bitcode"))
    /\ elast' = [kind |-> "finish", st |-> "ok", input |-> Blank]
    /\ UNCHANGED <<llvm, eerr, eused, emethod, emitted, debug_assertions>>

\* the caller of run drops the MemoryBuffer it was handed
DropMemoryBuffer ==
    /\ epc = "done"
    /\ epc' = "released"
    /\ heap' = Append(heap, [op |-> "dispose", res |-> "bitcode", n |-> 1])
    /\ UNCHANGED <<llvm, eerr, verifier, bitcode, elast, eused, emethod, emitted,
                   debug_assertions>>

\* run is entered with a normalize pass that is not running
EmitInit == NIdle /\ EInit /\ NvmlIdle

ENext ==
    \/ EmitStart /\ UNCHANGED <<nvars, nvml>>
    \/ EmitDirectiveVariable(MaxEmit) /\ UNCHANGED <<nvars, nvml>>
    \/ \E m \in EmitMethods : EmitMethodDeclaration(m, MaxEmit) /\ UNCHANGED <<nvars, nvml>>
    \/ \E m \in EmitMethods : EmitMethodBegin(m, MaxEmit) /\ UNCHANGED <<nvars, nvml>>
    \/ \E s \in EmitStatements : EmitStatement(s, MaxEmit) /\ UNCHANGED <<nvars, nvml>>
    \/ EmitMethodEnd /\ UNCHANGED <<nvars, nvml>>
    \/ \E status \in {0, 1}, message \in BOOLEAN : Finish(status, message) /\ UNCHANGED <<nvars, nvml>>

SpecEmit == EmitInit /\ [][ENext]_vars

(***************************************************************************)
(* Signatures only: method declarations whose input arguments range over   *)
(* every state space, handed to emit_method one after the other.           *)
(***************************************************************************)
AbiTypes == {Scalar("U32"), Scalar("F16x2"), Vector(2, "F32"), Pointer("U32", "Global")}

AbiFirst == {Argument(4, Scalar("U32"), "Reg"), Argument(4, Scalar("F16x2"), "Reg"),
             Argument(4, Scalar("U64"), "ParamEntry"), Argument(4, Scalar("U32"), "Param")}

AbiMethods ==
    { Method(n, <<>>, <<Argument(4, t, s)>>, None) :
        n \in {Kernel("k"), Func(1)}, t \in AbiTypes, s \in StateSpaces }
    \cup
    { Method(n, <<>>, <<a, Argument(5, t, s)>>, None) :
        n \in {Kernel("k"), Func(1)}, a \in AbiFirst, t \in AbiTypes, s \in StateSpaces }

AbiNext ==
    \/ EmitStart /\ UNCHANGED <<nvars, nvml>>
    \/ \E m \in AbiMethods : EmitMethodDeclaration(m, MaxAbi) /\ UNCHANGED <<nvars, nvml>>
    \/ \E status \in {0, 1}, message \in BOOLEAN : Finish(status, message) /\ UNCHANGED <<nvars, nvml>>

SpecAbi == EmitInit /\ [][AbiNext]_vars

(***************************************************************************)
(* State spaces only: one function whose body declares variables in every  *)
(* state space, of a scalar type and of every pointer type, and converts   *)
(* an integer to a pointer into every state space.                         *)
(***************************************************************************)
SpacesMethod == Method(Func(1), <<>>, <<Argument(4, Scalar("U64"), "Reg")>>, None)

SpacesStatements ==
    { VariableStatement(6, Scalar("U32"), s) : s \in StateSpaces }
    \cup { VariableStatement(6, Pointer("U32", to), s) : to \in StateSpaces, s \in StateSpaces }
    \cup { ConversionStatement("BitToPtr", 9, 4, to) : to \in StateSpaces }

SpacesNext ==
    \/ EmitStart /\ UNCHANGED <<nvars, nvml>>
    \/ EmitMethodBegin(SpacesMethod, MaxSpaces) /\ UNCHANGED <<nvars, nvml>>
    \/ \E s \in SpacesStatements : EmitStatement(s, MaxSpaces) /\ UNCHANGED <<nvars, nvml>>
    \/ EmitMethodEnd /\ UNCHANGED <<nvars, nvml>>
    \/ \E status \in {0, 1}, message \in BOOLEAN : Finish(status, message) /\ UNCHANGED <<nvars, nvml>>

SpecSpaces == EmitInit /\ [][SpacesNext]_vars

(***************************************************************************)
(* Known gaps only: the constructs the emitter does not lower yet, each    *)
(* next to a lowered construct of the same kind.                           *)
(***************************************************************************)
GapMethod == Method(Func(1), <<>>, <<Argument(4, Scalar("U64"), "Reg")>>, None)

GapDeclarations ==
    { Method(Kernel("k"), <<>>, <<Argument(4, Scalar("F16x2"), "ParamEntry")>>, None),
      Method(Func(1), <<>>, <<Argument(4, Scalar("BF16x2"), "Reg")>>, None),
      Method(Func(1), <<Argument(6, Scalar("U32"), "Reg"), Argument(7, Scalar("U32"), "Reg")>>,
                      <<>>, None),
      Method(Func(1), <<Argument(6, Scalar("U32"), "Reg")>>, <<>>, None) }

GapStatements ==
    { InstructionStatement("Ld", 9, 4, 0),
      [InstructionStatement("Ld", 9, 4, 0) EXCEPT !.non_coherent = TRUE],
      [InstructionStatement("Ld", 9, 4, 0) EXCEPT !.qualifier = "Volatile"],
      [InstructionStatement("Ld", 9, 4, 0) EXCEPT !.typ = Scalar("F16x2")],
      InstructionStatement("St", 0, 4, 4),
      [InstructionStatement("St", 0, 4, 4) EXCEPT !.qualifier = "Volatile"],
      ConversionStatement("BitToPtr", 9, 4, "Global"),
      ConversionStatement("SignExtend", 9, 4, "Global"),
      InstructionStatement("Mul", 9, 4, 4),
      InstructionStatement("Bra", 0, 8, 0),
      VariableStatement(6, Scalar("U32"), "Reg"),
      VariableStatement(6, Scalar("U16x2"), "Reg"),
      [VariableStatement(6, Array(0, "U32", <<2>>), "Local") EXCEPT !.array_init = <<1, 2>>] }

GapsNext ==
    \/ EmitStart /\ UNCHANGED <<nvars, nvml>>
    \/ EmitDirectiveVariable(MaxGaps) /\ UNCHANGED <<nvars, nvml>>
    \/ \E m \in GapDeclarations : EmitMethodDeclaration(m, MaxGaps) /\ UNCHANGED <<nvars, nvml>>
    \/ EmitMethodBegin(GapMethod, MaxGaps) /\ UNCHANGED <<nvars, nvml>>
    \/ \E s \in GapStatements : EmitStatement(s, MaxGaps) /\ UNCHANGED <<nvars, nvml>>
    \/ EmitMethodEnd /\ UNCHANGED <<nvars, nvml>>
    \/ \E status \in {0, 1}, message \in BOOLEAN : Finish(status, message) /\ UNCHANGED <<nvars, nvml>>

SpecGaps == EmitInit /\ [][GapsNext]_vars

(***************************************************************************)
(* Either pass, run on its own input: the normalization of a parsed        *)
(* module, or the emission of a list of directives.                        *)
(***************************************************************************)
PassesInit == Init \/ EmitInit

PassesNext ==
    \/ Next
    \/ EmitStart /\ UNCHANGED <<nvars, nvml>>
    \/ EmitDirectiveVariable(MaxPasses) /\ UNCHANGED <<nvars, nvml>>
    \/ \E m \in EmitMethods : EmitMethodDeclaration(m, MaxPasses) /\ UNCHANGED <<nvars, nvml>>
    \/ \E m \in EmitMethods : EmitMethodBegin(m, MaxPasses) /\ UNCHANGED <<nvars, nvml>>
    \/ \E s \in EmitStatements : EmitStatement(s, MaxPasses) /\ UNCHANGED <<nvars, nvml>>
    \/ EmitMethodEnd /\ UNCHANGED <<nvars, nvml>>
    \/ \E status \in {0, 1}, message \in BOOLEAN : Finish(status, message) /\ UNCHANGED <<nvars, nvml>>

SpecPasses == PassesInit /\ [][PassesNext]_vars

(***************************************************************************)
(* The emitter and its caller: run, and the caller dropping the buffer it  *)
(* was handed.                                                             *)
(***************************************************************************)
ReleaseNext ==
    \/ EmitStart /\ UNCHANGED <<nvars, nvml>>
    \/ EmitDirectiveVariable(MaxRelease) /\ UNCHANGED <<nvars, nvml>>
    \/ \E m \in EmitMethods : EmitMethodDeclaration(m, MaxRelease) /\ UNCHANGED <<nvars, nvml>>
    \/ \E m \in EmitMethods : EmitMethodBegin(m, MaxRelease) /\ UNCHANGED <<nvars, nvml>>
    \/ \E s \in EmitStatements : EmitStatement(s, MaxRelease) /\ UNCHANGED <<nvars, nvml>>
    \/ EmitMethodEnd /\ UNCHANGED <<nvars, nvml>>
    \/ \E status \in {0, 1}, message \in BOOLEAN : Finish(status, message) /\ UNCHANGED <<nvars, nvml>>
    \/ DropMemoryBuffer /\ UNCHANGED <<nvars, nvml>>

SpecRelease == EmitInit /\ [][ReleaseNext]_vars

(***************************************************************************)
(* Bodies only: a kernel and a function with one argument each, and bodies *)
(* made of labels, variables, constants, mov, add and ret over a few ids   *)
(* (4: the argument, 9 and 6: registers, 10: never registered).            *)
(***************************************************************************)
BodyMethods ==
    { Method(Kernel("k"), <<>>, <<Argument(4, Scalar("U64"), "ParamEntry")>>, None),
      Method(Func(1), <<>>, <<Argument(4, Scalar("U64"), "Reg")>>, None) }

BodyStatements ==
    { VariableStatement(6, Scalar("U64"), "Reg"),
      LabelStatement(8),
      LabelStatement(11),
      InstructionStatement("Ret", 0, 0, 0),
      InstructionStatement("Mov", 9, 4, 0),
      InstructionStatement("Mov", 4, 9, 0),
      InstructionStatement("Mov", 9, 10, 0),
      InstructionStatement("Add", 9, 4, 4),
      InstructionStatement("Add", 4, 9, 9),
      ConstantStatement(4, Scalar("U64"), "U64", 1) }

BodyIds == {4, 6, 8, 9, 10, 11}

BodyNext ==
    \/ EmitStart /\ UNCHANGED <<nvars, nvml>>
    \/ \E m \in BodyMethods : EmitMethodBegin(m, MaxBody) /\ UNCHANGED <<nvars, nvml>>
    \/ \E s \in BodyStatements : EmitStatement(s, MaxBody) /\ UNCHANGED <<nvars, nvml>>
    \/ EmitMethodEnd /\ UNCHANGED <<nvars, nvml>>
    \/ \E status \in {0, 1}, message \in BOOLEAN : Finish(status, message) /\ UNCHANGED <<nvars, nvml>>

SpecBody == EmitInit /\ [][BodyNext]_vars

(***************************************************************************)
(* Calls: the device function f (id 1), declared or defined, a kernel, and *)
(* bodies that call id 1 or id 5 (never a function) with no, one or two    *)
(* arguments and with or without a destination.                            *)
(***************************************************************************)
CallMethods ==
    { Method(Func(1), <<Argument(6, Scalar("U32"), "Reg")>>,
                      <<Argument(4, Scalar("U32"), "Reg")>>, None),
      Method(Kernel("k"), <<>>, <<Argument(4, Scalar("U64"), "ParamEntry")>>, None) }

CallStatement(func, rets, args) ==
    [InstructionStatement("Call", 0, func, 0)
        EXCEPT !.rets = rets, !.args = args,
               !.ret_types = [i \in 1 .. Len(rets) |-> Argument(0, Scalar("U32"), "Reg")],
               !.arg_types = [i \in 1 .. Len(args) |-> Argument(0, Scalar("U32"), "Reg")]]

CallStatements ==
    { CallStatement(1, <<>>, <<>>),
      CallStatement(1, <<9>>, <<4>>),
      CallStatement(1, <<6>>, <<4, 9>>),
      CallStatement(5, <<9>>, <<4>>),
      ConstantStatement(9, Scalar("U32"), "U32", 1),
      InstructionStatement("Ret", 0, 0, 0) }

CallIds == {1, 4, 5, 6, 9}

CallsNext ==
    \/ EmitStart /\ UNCHANGED <<nvars, nvml>>
    \/ \E m \in CallMethods : EmitMethodDeclaration(m, MaxCalls) /\ UNCHANGED <<nvars, nvml>>
    \/ \E m \in CallMethods : EmitMethodBegin(m, MaxCalls) /\ UNCHANGED <<nvars, nvml>>
    \/ \E s \in CallStatements : EmitStatement(s, MaxCalls) /\ UNCHANGED <<nvars, nvml>>
    \/ EmitMethodEnd /\ UNCHANGED <<nvars, nvml>>
    \/ \E status \in {0, 1}, message \in BOOLEAN : Finish(status, message) /\ UNCHANGED <<nvars, nvml>>

SpecCalls == EmitInit /\ [][CallsNext]_vars

(***************************************************************************)
(* Failures: every fallible statement with sources that have a value       *)
(* (4, and 9 after the constant) and with a source that has none (10), a   *)
(* variable in a state space and a conversion to a state space that are    *)
(* not lowered, a call of an id that is no function.                       *)
(***************************************************************************)
FailureMethod == Method(Func(1), <<>>, <<Argument(4, Scalar("U64"), "Reg")>>, None)

FailureStatements ==
    { VariableStatement(6, Scalar("U32"), "Reg"),
      VariableStatement(6, Scalar("U32"), "Param"),
      [Blank EXCEPT !.kind = "LoadVar", !.dst = 9, !.src1 = 4],
      [Blank EXCEPT !.kind = "LoadVar", !.dst = 9, !.src1 = 10],
      [Blank EXCEPT !.kind = "StoreVar", !.src1 = 4, !.src2 = 10],
      ConversionStatement("BitToPtr", 9, 10, "Global"),
      ConversionStatement("BitToPtr", 9, 4, "Param"),
      ConstantStatement(9, Scalar("U32"), "U64", 1),
      InstructionStatement("Mov", 9, 10, 0),
      InstructionStatement("Ld", 9, 10, 0),
      [InstructionStatement("Ld", 9, 4, 0) EXCEPT !.typ = Pointer("U32", "Param")],
      InstructionStatement("St", 0, 4, 10),
      InstructionStatement("Add", 9, 4, 10),
      InstructionStatement("Add", 9, 10, 4),
      CallStatement(5, <<9>>, <<4>>),
      CallStatement(1, <<9>>, <<10>>) }

FailureIds == {1, 4, 5, 6, 9, 10}

FailuresNext ==
    \/ EmitStart /\ UNCHANGED <<nvars, nvml>>
    \/ EmitMethodBegin(FailureMethod, MaxFailures) /\ UNCHANGED <<nvars, nvml>>
    \/ \E s \in FailureStatements : EmitStatement(s, MaxFailures) /\ UNCHANGED <<nvars, nvml>>
    \/ EmitMethodEnd /\ UNCHANGED <<nvars, nvml>>
    \/ \E status \in {0, 1}, message \in BOOLEAN : Finish(status, message) /\ UNCHANGED <<nvars, nvml>>

SpecFailures == EmitInit /\ [][FailuresNext]_vars

(***************************************************************************)
(* Names: kernels and device functions whose ids are in the identifier     *)
(* table, with and without a source name, with and without import_as.      *)
(***************************************************************************)
NameMethods ==
    { Method(name, <<>>, <<>>, import_as) :
        name \in {Kernel("k"), Func(1), Func(2)}, import_as \in {None, Some("x")} }

NamesNext ==
    \/ EmitStart /\ UNCHANGED <<nvars, nvml>>
    \/ \E m \in NameMethods : EmitMethodDeclaration(m, MaxNames) /\ UNCHANGED <<nvars, nvml>>
    \/ \E m \in NameMethods : EmitMethodBegin(m, MaxNames) /\ UNCHANGED <<nvars, nvml>>
    \/ EmitMethodEnd /\ UNCHANGED <<nvars, nvml>>
    \/ \E status \in {0, 1}, message \in BOOLEAN : Finish(status, message) /\ UNCHANGED <<nvars, nvml>>

SpecNames == EmitInit /\ [][NamesNext]_vars

(***************************************************************************)
(* Array types: local variables of array type, with and without a vector   *)
(* element, of no to MaxDims dimensions.                                   *)
(***************************************************************************)
Dimensions == UNION { [1 .. n -> {2, 3}] : n \in 0 .. MaxDims }

TypesMethod == Method(Kernel("k"), <<>>, <<>>, None)

TypesStatements ==
    { VariableStatement(6, Array(vec, scalar, dims), "Local") :
        vec \in {0, 2}, scalar \in {"U32", "F32"}, dims \in Dimensions }

TypesNext ==
    \/ EmitStart /\ UNCHANGED <<nvars, nvml>>
    \/ EmitMethodBegin(TypesMethod, MaxTypes) /\ UNCHANGED <<nvars, nvml>>
    \/ \E s \in TypesStatements : EmitStatement(s, MaxTypes) /\ UNCHANGED <<nvars, nvml>>
    \/ EmitMethodEnd /\ UNCHANGED <<nvars, nvml>>
    \/ \E status \in {0, 1}, message \in BOOLEAN : Finish(status, message) /\ UNCHANGED <<nvars, nvml>>

SpecTypes == EmitInit /\ [][TypesNext]_vars

(***************************************************************************)
(* One call of system_get_driver_version, with every pointer, length and   *)
(* buffer of the bounds.                                                   *)
(***************************************************************************)
VersionInit ==
    /\ NIdle /\ EIdle
    /\ nvml \in { c \in NvmlCalls : c.result # None => Len(c.result[1]) >= c.length }

\* the call is made and returns
SystemGetDriverVersion ==
    /\ nvml.pc = "call"
    /\ \E r \in {system_get_driver_version(nvml.result, nvml.length)} :
           nvml' = [pc |-> "returned", result |-> nvml.result, length |-> nvml.length,
                    ret |-> r.ret, mem |-> r.mem, written |-> r.written]

VersionNext == SystemGetDriverVersion /\ UNCHANGED <<nvars, evars>>

SpecVersion == VersionInit /\ [][VersionNext]_vars

(***************************************************************************)
(* Properties of the normalize pass.                                       *)
(***************************************************************************)
Range(f) == { f[i] : i \in DOMAIN f }

\* the scope instances open at this point of the pass, outermost first
OpenScopes ==
    IF npc \in {"module", "body"}
    THEN <<ModuleScope>> \o [i \in 1 .. Len(frames) |-> frames[i].uid]
    ELSE <<>>

\* position of a scope instance in the stack of open scopes (0: not open)
DepthOf(scope) ==
    IF scope \in Range(OpenScopes)
    THEN CHOOSE d \in 1 .. Len(OpenScopes) : OpenScopes[d] = scope
    ELSE 0

\* C1. Identifier freshness: every id an add call returned differs from every
\* id the resolver returned before it, whichever scope that one was bound in
\* and whether or not that scope is still open.
IdentifierFreshness ==
    \A j \in 1 .. Len(intro) : \A i \in 1 .. j - 1 :
        intro[j].op = "add" => intro[j].id # intro[i].id

\* an add in one scope after adds in a scope that has been popped since
FreshAfterPop ==
    /\ npc = "body"
    /\ \E i, j \in 1 .. Len(intro) :
          /\ i < j
          /\ intro[i].op = "add" /\ intro[j].op = "add"
          /\ DepthOf(intro[i].scope) = 0
          /\ DepthOf(intro[j].scope) > 1
          /\ intro[i].name = intro[j].name

\* C2. Scope discipline: at every point of the pass, get(name) succeeds
\* exactly when a scope that is still open has bound the name, and returns
\* the id bound in the innermost such scope; a binding of a popped scope
\* (an earlier method, a finished block) is never returned.
ScopeDiscipline ==
    npc \in {"module", "body", "done"} =>
        \A n \in AllNames :
            LET live == { k \in 1 .. Len(intro) :
                            intro[k].name = n /\ DepthOf(intro[k].scope) > 0 }
                g == get(resolver, n)
            IN  /\ g.ok <=> live # {}
                /\ g.ok => \E k \in live :
                              /\ intro[k].id = g.id
                              /\ \A m \in live :
                                    DepthOf(intro[m].scope) <= DepthOf(intro[k].scope)

\* a block that shadowed a name of the method has just been popped, and so
\* has a scope whose only binding of a name is gone with it
ShadowPopped ==
    /\ npc = "body"
    /\ last.kind = "BlockEnd"
    /\ \E k, m \in 1 .. Len(intro) :
          /\ intro[k].name = intro[m].name
          /\ intro[k].scope = last.closed
          /\ DepthOf(intro[m].scope) > 1
          /\ get(resolver, intro[m].name).id = intro[m].id
    /\ \E k \in 1 .. Len(intro) :
          /\ intro[k].scope = last.closed
          /\ ~get(resolver, intro[k].name).ok

\* C3. Label hoisting: an instruction of a statement list that names a label
\* declared later in that list does not fail on that name, and the id it
\* carries for it is the id of the Statement::Label emitted for the label.
LabelHoisting ==
    /\ (last.kind = "Instruction" /\ ~last.ok /\ npc = "error")
          => nerr[2] \notin Range(last.pending)
    /\ \A j \in 1 .. Len(result) : \A i \in 1 .. j - 1 :
          (/\ result[i].kind = "Instruction"
           /\ result[j].kind = "Label"
           /\ result[i].list = result[j].list)
          => /\ \A k \in 1 .. Len(result[i].src) :
                   result[i].src[k] = result[j].src[1]
                      => result[i].args[k] = result[j].id
             /\ (result[i].src_pred # None /\ result[i].src_pred[1].label = result[j].src[1])
                   => result[i].pred[1].label = result[j].id

\* an operand and a predicate that named a label ahead of its declaration
ForwardReference ==
    \E i, j \in 1 .. Len(result) :
        /\ i < j
        /\ result[i].kind = "Instruction"
        /\ result[j].kind = "Label"
        /\ result[i].list = result[j].list
        /\ result[i].src_pred # None
        /\ result[i].src_pred[1].label = result[j].src[1]

\* C4. Multivariable expansion: a declaration B<N> appends exactly N Variable
\* statements, in index order, with pairwise distinct ids bound to B0 .. B(N-1)
\* in the current scope and with the type, state space, alignment and array
\* initializer of the declaration; a declaration without a count appends one
\* Variable bound to B.
Suffix == <<"0", "1", "2", "3", "4", "5", "6", "7", "8", "9">>

MultivariableExpansion ==
    (last.kind = "Variable" /\ last.ok) =>
        LET v == last.variable.var
            n == IF last.variable.count = None THEN 1 ELSE last.variable.count[1]
            name(i) == IF last.variable.count = None THEN v.name ELSE v.name \o Suffix[i + 1]
            e(i) == result[last.before + i + 1]
        IN  /\ Len(result) = last.before + n
            /\ \A i \in 0 .. n - 1 :
                  /\ e(i).kind = "Variable"
                  /\ e(i).v_type = v.v_type
                  /\ e(i).state_space = v.state_space
                  /\ e(i).align = v.align
                  /\ e(i).array_init = v.array_init
                  /\ get_in_current_scope(resolver, name(i)).ok
                  /\ get_in_current_scope(resolver, name(i)).id = e(i).name
                  /\ resolver.ident_map[e(i).name].name = name(i)
                  /\ \A k \in 0 .. i - 1 : e(k).name # e(i).name

\* a declaration r<2> has been expanded after another statement
ExpandedTwo ==
    /\ last.kind = "Variable"
    /\ last.ok
    /\ last.variable.count = Some(2)
    /\ last.before > 0

\* C5. Declaration/definition collapse: Method directives that carry the same
\* device-function name get the same id and the name has one untyped entry in
\* the identifier table; different function names get different ids; a kernel
\* name is passed through as text and is given no id.
Methods == { i \in 1 .. Len(directives) : directives[i].kind = "Method" }

DeclarationDefinitionCollapse ==
    /\ \A i \in Methods : \A j \in Methods :
          (directives[i].src.kind = "Func" /\ directives[j].src.kind = "Func")
             => (directives[i].src.text = directives[j].src.text
                   <=> directives[i].func_decl.name.val = directives[j].func_decl.name.val)
    /\ \A f \in GlobalNames :
          Cardinality({ id \in DOMAIN resolver.ident_map :
                          /\ resolver.ident_map[id].name = f
                          /\ resolver.ident_map[id].type_space = None }) <= 1
    /\ \A i \in Methods :
          directives[i].src.kind = "Func" =>
             /\ directives[i].func_decl.name.kind = "Func"
             /\ resolver.ident_map[directives[i].func_decl.name.val].name = directives[i].src.text
    /\ \A i \in Methods :
          directives[i].src.kind = "Kernel" =>
             /\ directives[i].func_decl.name.kind = "Kernel"
             /\ directives[i].func_decl.name.val = directives[i].src.text
    /\ \A id \in DOMAIN resolver.ident_map :
          resolver.ident_map[id].name \notin KernelNames

\* a declaration of f, then its definition with a body, and a kernel
DeclaredThenDefined ==
    \E i, j \in Methods :
        /\ i < j
        /\ directives[i].src = [kind |-> "Func", text |-> "f"]
        /\ directives[j].src = [kind |-> "Func", text |-> "f"]
        /\ directives[i].body = None
        /\ directives[j].body # None
        /\ directives[j].body[1] # <<>>

(***************************************************************************)
(* Properties of the emitter.                                              *)
(***************************************************************************)
\* the instructions of a function, each with the number of its block
InstsOf(fn) ==
    UNION { { [block |-> b, inst |-> fn.blocks[b].insts[k]] :
                k \in 1 .. Len(fn.blocks[b].insts) } : b \in 1 .. Len(fn.blocks) }

\* the functions emit_method returned Ok for
Returned == { emitted[i] : i \in 1 .. Len(emitted) }

\* C6 (allocas dominate): once emit_method has returned Ok for a method with
\* a body, every alloca of its function is in the first basic block, and
\* the first block has exactly one terminator, its last instruction, which
\* is an unconditional branch to the second basic block.
AllocasDominate ==
    \A r \in Returned :
        r.body =>
            LET fn == llvm.module[r.fn]
                first == fn.blocks[1].insts
            IN  /\ Len(fn.blocks) >= 2
                /\ \A i \in InstsOf(fn) : i.inst.op = "alloca" => i.block = 1
                /\ first # <<>>
                /\ first[Len(first)].op = "br"
                /\ first[Len(first)].ops = <<>>
                /\ first[Len(first)].target = 2
                /\ \A k \in 1 .. Len(first) - 1 : ~IsTerminator(first[k])

\* a returned function whose Variable statement came after a label and after
\* the branch the label built: the alloca is younger than an instruction of
\* a later block
AllocaAfterLabel ==
    \E r \in Returned :
        /\ r.body
        /\ Len(llvm.module[r.fn].blocks) >= 3
        /\ \E a, i \in InstsOf(llvm.module[r.fn]) :
              /\ a.inst.op = "alloca"
              /\ i.block >= 2
              /\ a.inst.val > i.inst.val

\* C7 (calling convention): once emit_method has returned Ok, the function of
\* a kernel has the AMDGPU-kernel calling convention and exactly one
\* attribute per input parameter i, a byref of the parameter's type at
\* attribute index i+1; the function of a device function has the C calling
\* convention and no attribute.
CallingConvention ==
    \A r \in Returned :
        LET fn == llvm.module[r.fn]
            args == r.method.input_arguments
        IN  IF r.method.name.kind = "Kernel"
            THEN /\ fn.call_conv = AMDGPUKernelCallConv
                 /\ \A i \in 0 .. Len(args) - 1 :
                       [index |-> i + 1, kind |-> "byref",
                        ty |-> get_type(args[i + 1].v_type).ty] \in fn.attrs
                 /\ Cardinality(fn.attrs) = Len(args)
            ELSE /\ fn.call_conv = CCallConv
                 /\ fn.attrs = {}

\* a kernel of two parameters and a device function with a parameter have
\* both been emitted
KernelAndFunctionEmitted ==
    /\ \E r \in Returned : r.method.name.kind = "Kernel" /\ Len(r.method.input_arguments) = 2
    /\ \E r \in Returned : r.method.name.kind = "Func" /\ Len(r.method.input_arguments) = 1

\* C8 (parameter ABI): the type of an input argument follows its state
\* space: ParamEntry gives ptr addrspace(4) whatever the PTX type, Reg the
\* LLVM type of the PTX type, and an input argument in any other state space
\* makes emit_method return an error without adding a function.
ParameterABI ==
    elast.kind = "method" =>
        LET args == elast.input.input_arguments
            rejected == \E i \in 1 .. Len(args) : args[i].state_space \notin {"ParamEntry", "Reg"}
        IN  /\ rejected => elast.st = "err" /\ Len(llvm.module) = elast.fns
            /\ Len(llvm.module) > elast.fns =>
                  /\ Len(llvm.module[Len(llvm.module)].params) = Len(args)
                  /\ \A i \in 1 .. Len(args) :
                        llvm.module[Len(llvm.module)].params[i] =
                            IF args[i].state_space = "ParamEntry"
                            THEN "ptr addrspace(4)"
                            ELSE get_type(args[i].v_type).ty

\* the same for the methods none of whose register arguments has a packed
\* type, which is what emit_method does
ParameterABIUnpacked ==
    elast.kind = "method" =>
        LET args == elast.input.input_arguments
            rejected == \E i \in 1 .. Len(args) : args[i].state_space \notin {"ParamEntry", "Reg"}
            packed == \E i \in 1 .. Len(args) :
                         args[i].state_space = "Reg" /\ get_type(args[i].v_type).st = "panic"
        IN  /\ rejected /\ ~packed => elast.st = "err" /\ Len(llvm.module) = elast.fns
            /\ Len(llvm.module) > elast.fns =>
                  /\ Len(llvm.module[Len(llvm.module)].params) = Len(args)
                  /\ \A i \in 1 .. Len(args) :
                        llvm.module[Len(llvm.module)].params[i] =
                            IF args[i].state_space = "ParamEntry"
                            THEN "ptr addrspace(4)"
                            ELSE get_type(args[i].v_type).ty

\* the address spaces of section 3 of the specification
AddressSpaceTable ==
    [Generic |-> 0, Global |-> 1, Shared |-> 3, Const |-> 4, ParamEntry |-> 4,
     Local |-> 5, Reg |-> 5]

NotYetImplemented == {"Param", "ParamFunc", "SharedCta", "SharedCluster"}

\* C9 (address-space mapping): get_state_space follows the table and is the
\* Todo error for Param, ParamFunc, SharedCta and SharedCluster; every
\* alloca is in the address space of its state space, every pointer type is
\* in the address space of the state space it points to, and so is the
\* result of every int-to-pointer conversion; a state space without an
\* address space is the Todo error and builds nothing.
AddressSpaceMapping ==
    /\ \A s \in StateSpaces :
          IF s \in NotYetImplemented
          THEN get_state_space(s).st = "err" /\ get_state_space(s).err = "Todo"
          ELSE get_state_space(s).st = "ok" /\ get_state_space(s).as = AddressSpaceTable[s]
    /\ \A f \in 1 .. Len(llvm.module) : \A i \in InstsOf(llvm.module[f]) :
          /\ i.inst.op = "alloca" =>
                /\ i.inst.space \notin NotYetImplemented
                /\ i.inst.as = AddressSpaceTable[i.inst.space]
          /\ i.inst.op = "inttoptr" =>
                /\ i.inst.space \notin NotYetImplemented
                /\ i.inst.ty = LLVMPointerType(AddressSpaceTable[i.inst.space])
    /\ elast.kind = "statement" /\ elast.input.kind = "Variable" =>
          LET var == elast.input
              spaces == {var.state_space} \cup
                        (IF var.v_type.k = "Pointer" THEN {var.v_type.space} ELSE {})
              built == llvm.module[llvm.method].blocks[1].insts
          IN  IF spaces \cap NotYetImplemented # {}
              THEN elast.st = "err" /\ eerr = "Todo" /\ llvm.serial = elast.serial
              ELSE /\ elast.st = "ok"
                   /\ llvm.serial = elast.serial + 1
                   /\ built[Len(built)].op = "alloca"
                   /\ var.v_type.k = "Pointer" =>
                         built[Len(built)].ty =
                             LLVMPointerType(AddressSpaceTable[var.v_type.space])
    /\ elast.kind = "statement" /\ elast.input.kind = "Conversion" =>
          (elast.input.space \in NotYetImplemented <=> elast.st = "err" /\ eerr = "Todo")

\* a variable in the Local state space whose type is a pointer to Shared has
\* been emitted
LocalPointerToShared ==
    /\ elast.kind = "statement"
    /\ elast.st = "ok"
    /\ elast.input.kind = "Variable"
    /\ elast.input.state_space = "Local"
    /\ elast.input.v_type = Pointer("U32", "Shared")

\* C10 (verifier acceptance): bitcode is written only of a module the
\* verifier accepted: whenever run has returned Ok with a buffer, the status
\* of LLVMVerifyModule was 0, whatever message pointer came with it.
VerifierAcceptance ==
    bitcode # None => verifier # None /\ verifier[1].status = 0

\* what run does: the bitcode is written unless the verifier failed and
\* left a message
VerifierAcceptanceWithMessage ==
    bitcode # None => verifier # None /\ ~(verifier[1].status = 1 /\ verifier[1].message)

\* C11 (typed failure): no directive and no statement aborts the translator:
\* every step of the emitter either goes on or returns a TranslateError, also
\* on the constructs that are not lowered yet (module-level variable, packed
\* scalar type, non-Weak ld/st, non-coherent ld, conversion other than
\* BitToPtr, unlowered opcode, more than one return value, array initializer).
TypedFailure ==
    elast.kind \in {"variable", "method", "statement"} => elast.st # "panic"

\* the error the failing step of the normalize pass produced, from the state
\* the step started in
NormalizeError ==
    CASE last'.kind = "Instruction" -> run_predicated(resolver, last'.inst).err
      [] last'.kind = "Variable" -> run_multivariable(resolver, result, last'.variable).err
      [] OTHER -> nerr'

\* the error the failing step of the emitter produced, from the state the
\* step started in
EmitError ==
    CASE elast'.kind = "statement" -> emit_statement(llvm, elast'.input).err
      [] elast'.kind = "method" -> emit_method_head(llvm, elast'.input).err
      [] OTHER -> eerr'

NormalizeFailed == "ok" \in DOMAIN last /\ ~last.ok

\* C12: a pass stops at the first failing step: the step that fails ends the
\* pass with exactly the error it produced, no step follows a failure, and a
\* failed pass has no output (the directive list is not extended and never
\* returned, the module is neither verified nor written to bitcode).
ErrorPropagation ==
    /\ [](/\ npc = "error" <=> NormalizeFailed /\ npc # "panic"
          /\ npc = "error" => nerr # None
          /\ epc = "error" <=> elast.st = "err"
          /\ epc = "error" => eerr \in {"Todo", "Unreachable"} /\ bitcode = None /\ verifier = None)
    /\ [][/\ npc # "error" /\ epc # "error"
          /\ npc' = "error" => /\ nerr' = NormalizeError
                               /\ directives' = directives /\ result' = result
          /\ epc' = "error" => eerr' = EmitError]_vars

\* a pass has failed after a step of it had succeeded
FailedAfterProgress ==
    \/ npc = "error" /\ (directives # <<>> \/ result # <<>>)
    \/ epc = "error" /\ (emitted # <<>> \/ emethod # None)

\* positions of the log where the object is created, disposed
Events(op, res) == {i \in DOMAIN heap : heap[i].op = op /\ heap[i].res = res}

ScopedObjects == {"context", "module", "builder", "variables_builder"}

\* the n-th object of the kind is disposed `times` times, and not before it
\* was created
Disposed(i, times) ==
    /\ Cardinality({j \in DOMAIN heap : heap[j] = [heap[i] EXCEPT !.op = "dispose"]}) = times
    /\ \A j \in DOMAIN heap : heap[j] = [heap[i] EXCEPT !.op = "dispose"] => i < j

\* C13: when run has returned, Ok or an error, the context, the module, the
\* module builder and the allocas builder of every method with a body have
\* each been created once and disposed exactly once, no builder or module
\* after the context; the bitcode buffer is written before the module and the
\* context are disposed and is disposed only by the caller's drop.
ResourceRelease ==
    /\ \A i \in DOMAIN heap : heap[i].op = "dispose" =>
           \E j \in 1 .. i - 1 : heap[j] = [heap[i] EXCEPT !.op = "create"]
    /\ epc \in {"done", "released", "error"} =>
           /\ \A res \in {"context", "module", "builder"} : Cardinality(Events("create", res)) = 1
           /\ Cardinality(Events("create", "variables_builder"))
                  = Cardinality({i \in DOMAIN emitted : emitted[i].body})
                        + (IF emethod # None THEN 1 ELSE 0)
           /\ \A i \in DOMAIN heap :
                  heap[i].op = "create" /\ heap[i].res \in ScopedObjects => Disposed(i, 1)
    /\ \A i \in Events("dispose", "context") :
       \A j \in DOMAIN heap :
           heap[j].op = "dispose" /\ heap[j].res \in ScopedObjects \ {"context"} => j < i
    /\ \A i \in Events("create", "bitcode") :
       \A j \in Events("dispose", "module") \cup Events("dispose", "context") : i < j
    /\ epc = "done" => Events("create", "bitcode") # {} /\ Events("dispose", "bitcode") = {}
    /\ Events("dispose", "bitcode") # {} <=> epc = "released"

\* run has returned the error of a statement of the second method with a body
ErrorInSecondBody ==
    /\ epc = "error"
    /\ elast.kind = "statement"
    /\ \E i \in DOMAIN emitted : emitted[i].body
    /\ Cardinality(Events("dispose", "variables_builder")) = 2

\* the bindings of a name in the scopes open at this point
BoundHere(n) == { k \in 1 .. Len(intro) : intro[k].name = n /\ DepthOf(intro[k].scope) > 0 }

\* the id is the one bound to the name in the innermost open scope binding it
InnermostBinding(n, id) ==
    \E k \in BoundHere(n) :
        /\ intro[k].id = id
        /\ \A m \in BoundHere(n) : DepthOf(intro[m].scope) <= DepthOf(intro[k].scope)

\* the names an instruction mentions: its predicate, then its operands
Mentioned(inst) ==
    (IF inst.pred = None THEN <<>> ELSE <<inst.pred[1].label>>) \o inst.args

\* the ids a normalized instruction carries, in the order of Mentioned
Carried(out) ==
    (IF out.pred = None THEN <<>> ELSE <<out.pred[1].label>>) \o out.args

\* every instruction of every method body of the returned directives
Normalized ==
    UNION { Range(SelectSeq(directives[i].body[1], LAMBDA st : st.kind = "Instruction")) :
              i \in { j \in Methods : directives[j].body # None } }

\* C14: an instruction is normalized exactly when every name it mentions is
\* bound in a scope open at its position (labels of the open lists count from
\* the start of their list); each id it then carries is the id bound to the
\* name in the innermost such scope, and when the pass has returned Ok every
\* id of every instruction has a descriptor in the identifier table.
ResolutionAtUse ==
    /\ [][(last'.kind = "Instruction" /\ used' # used) =>
            /\ last'.ok <=> \A k \in DOMAIN Mentioned(last'.inst) :
                                BoundHere(Mentioned(last'.inst)[k]) # {}
            /\ last'.ok => \A k \in DOMAIN Mentioned(last'.inst) :
                               /\ InnermostBinding(Mentioned(last'.inst)[k],
                                                   Carried(result'[Len(result')])[k])
                               /\ Carried(result'[Len(result')])[k]
                                      \in DOMAIN resolver'.ident_map]_vars
    /\ [](npc = "done" => \A st \in Normalized :
                              \A k \in DOMAIN Carried(st) :
                                  Carried(st)[k] \in DOMAIN resolver.ident_map)

\* an instruction has been normalized whose operand names a variable of the
\* block that shadows one of the method
ShadowedOperand ==
    /\ npc = "body"
    /\ last.kind = "Instruction" /\ last.ok
    /\ \E k, m \in BoundHere(last.inst.args[1]) :
           DepthOf(intro[k].scope) < DepthOf(intro[m].scope)

\* C15: the identifier table only grows: a step of the pass keeps every
\* entry of the table as it is, popping a scope included, and every id the
\* resolver has handed out has an entry under the name it was handed out for.
TableAppendOnly ==
    /\ [][\A id \in DOMAIN resolver.ident_map :
              /\ id \in DOMAIN resolver'.ident_map
              /\ resolver'.ident_map[id] = resolver.ident_map[id]]_vars
    /\ [](\A k \in DOMAIN intro :
              /\ intro[k].id \in DOMAIN resolver.ident_map
              /\ resolver.ident_map[intro[k].id].name = intro[k].name)

\* a block that bound a name has been popped and the table still has the entry
EntryOutlivesScope ==
    /\ last.kind = "BlockEnd"
    /\ \E k \in DOMAIN intro :
           /\ intro[k].scope = last.closed
           /\ ~get(resolver, intro[k].name).ok
           /\ intro[k].id \in DOMAIN resolver.ident_map

(***************************************************************************)
(* Properties of method bodies.                                            *)
(***************************************************************************)
\* two LLVM values are the same one (a constant's n is not a number)
SameValue(a, b) == a.k = b.k /\ a = b

\* value answers Ok with the value
Answers(r, v) == r.st = "ok" /\ SameValue(r.v, v)

\* value answers the Unreachable error
Unregistered(r) == r.st = "err" /\ r.err = "Unreachable"

\* C17: at every point of the emission, value(id) is the value of the most
\* recent register for the id, whichever method it happened in, and is the
\* Unreachable error exactly for the ids no register has named; a step that
\* registers nothing for an id leaves what value returns for it.
ResolverMap ==
    /\ [](\A id \in BodyIds :
              IF id \in DOMAIN llvm.registered
              THEN Answers(value(llvm, id), llvm.registered[id][Len(llvm.registered[id])])
              ELSE Unregistered(value(llvm, id)))
    /\ [][\A id \in BodyIds :
              /\ id \in DOMAIN llvm.registered => id \in DOMAIN llvm'.registered
              /\ id \notin DOMAIN llvm'.registered => Unregistered(value(llvm', id))
              /\ (/\ id \in DOMAIN llvm.registered
                  /\ Len(llvm'.registered[id]) = Len(llvm.registered[id]))
                    => Answers(value(llvm', id), value(llvm, id).v)]_vars

\* in a second method an id has a value other than the first one registered
\* for it, next to an id registered in the first method only
RegisteredAgain ==
    /\ epc = "body"
    /\ \E i \in DOMAIN emitted : emitted[i].body
    /\ \E id \in DOMAIN llvm.registered :
           /\ Len(llvm.registered[id]) >= 2
           /\ ~SameValue(llvm.registered[id][1], llvm.values[id])
    /\ \E id \in DOMAIN llvm.registered :
           /\ llvm.values[id].k = "inst"
           /\ \E i \in InstsOf(llvm.module[1]) : i.inst.val = llvm.values[id].n

\* the step emits one statement of a body
StatementStep == elast'.kind = "statement" /\ eused' = eused + 1

\* the id a statement registers a value for, if it registers one
Target(statement) == IF statement.kind = "Variable" THEN statement.name ELSE statement.dst

\* value answers the same for the id in both states
SameAnswer(a, b) == a.st = b.st /\ (a.st = "ok" => SameValue(a.v, b.v))

\* C18: a mov builds no instruction; with a registered source it binds the
\* destination to the value the source has at that moment and nothing else,
\* with an unregistered source it fails with Unreachable and binds nothing;
\* no later statement changes the value of an id other than its own
\* destination, so re-registering the source leaves the destination.
PureRebind ==
    /\ [][(StatementStep /\ elast'.input.opcode = "Mov") =>
            /\ llvm'.module = llvm.module
            /\ llvm'.serial = llvm.serial
            /\ IF value(llvm, elast'.input.src1).st = "ok"
               THEN /\ elast'.st = "ok"
                    /\ Answers(value(llvm', elast'.input.dst),
                               value(llvm, elast'.input.src1).v)
               ELSE /\ elast'.st = "err"
                    /\ epc' = "error" /\ eerr' = "Unreachable"
                    /\ SameAnswer(value(llvm', elast'.input.dst),
                                  value(llvm, elast'.input.dst))]_vars
    /\ [][StatementStep =>
            \A id \in BodyIds \ {Target(elast'.input)} :
                SameAnswer(value(llvm', id), value(llvm, id))]_vars

\* 9 was bound to the argument by a mov, and the argument's id has just been
\* registered again with another value
SourceReboundAfterMov ==
    /\ epc = "body"
    /\ elast.kind = "statement" /\ elast.st = "ok" /\ elast.input.dst = 4
    /\ 9 \in DOMAIN llvm.values
    /\ llvm.values[9].k = "param"
    /\ ~SameValue(llvm.values[4], llvm.values[9])

\* the blocks of the function whose body is being emitted
Blocks(e) == e.module[e.method].blocks

\* the block is the other one with a branch to the target added at its end
WithBranch(block, other, target) ==
    /\ block.name = other.name
    /\ Len(block.insts) = Len(other.insts) + 1
    /\ SubSeq(block.insts, 1, Len(other.insts)) = other.insts
    /\ block.insts[Len(block.insts)].op = "br"
    /\ block.insts[Len(block.insts)].target = target

\* C19: a label statement appends one empty block at the end of the
\* function; the block the body builder was in gets a branch
\* to the new block exactly when it had no terminator, every other block and
\* function stays as it is, and the body builder ends up in the new block. A
\* statement that is not a label leaves the blocks and the body builder where
\* they are, and what it builds goes to the end of the builder's block or,
\* for a variable, to the block of the allocas.
LabelEmission ==
    /\ [][(StatementStep /\ elast'.input.kind = "Label") =>
            /\ elast'.st = "ok"
            /\ llvm'.method = llvm.method
            /\ Len(llvm'.module) = Len(llvm.module)
            /\ \A f \in DOMAIN llvm.module :
                   f # llvm.method => llvm'.module[f] = llvm.module[f]
            /\ Len(Blocks(llvm')) = Len(Blocks(llvm)) + 1
            /\ Blocks(llvm')[Len(Blocks(llvm'))].insts = <<>>
            /\ \A b \in DOMAIN Blocks(llvm) :
                   IF b = llvm.builder[2] /\ ~HasTerminator(Blocks(llvm)[b])
                   THEN WithBranch(Blocks(llvm')[b], Blocks(llvm)[b], Len(Blocks(llvm')))
                   ELSE Blocks(llvm')[b] = Blocks(llvm)[b]
            /\ llvm'.builder = <<llvm.method, Len(Blocks(llvm'))>>]_vars
    /\ [][(StatementStep /\ elast'.input.kind # "Label" /\ elast'.st = "ok") =>
            /\ llvm'.builder = llvm.builder
            /\ Len(Blocks(llvm')) = Len(Blocks(llvm))
            /\ \A b \in DOMAIN Blocks(llvm) :
                   \/ Blocks(llvm')[b] = Blocks(llvm)[b]
                   \/ /\ b = IF elast'.input.kind = "Variable" THEN llvm.variables_builder[2]
                              ELSE llvm.builder[2]
                      /\ Len(Blocks(llvm')[b].insts) = Len(Blocks(llvm)[b].insts) + 1
                      /\ SubSeq(Blocks(llvm')[b].insts, 1, Len(Blocks(llvm)[b].insts))
                            = Blocks(llvm)[b].insts]_vars

\* a label has been emitted behind a block that ends in ret, in a function
\* where an earlier label got its branch
LabelAfterTerminator ==
    /\ epc = "body"
    /\ elast.kind = "statement" /\ elast.input.kind = "Label"
    /\ Len(Blocks(llvm)) >= 4
    /\ llvm.builder = <<llvm.method, Len(Blocks(llvm))>>
    /\ HasTerminator(Blocks(llvm)[Len(Blocks(llvm)) - 1])
    /\ Blocks(llvm)[Len(Blocks(llvm)) - 1].insts[1].op = "ret"
    /\ HasTerminator(Blocks(llvm)[2])
    /\ Blocks(llvm)[2].insts[Len(Blocks(llvm)[2].insts)].op = "br"

\* the instructions of the body of a function: those outside its first block
BodyInsts(fn) == { i \in InstsOf(fn) : i.block >= 2 }

\* position of an instruction of the function inside its block
PlaceOf(fn, i) ==
    CHOOSE k \in 1 .. Len(fn.blocks[i.block].insts) :
        fn.blocks[i.block].insts[k].val = i.inst.val

\* i comes before j in the function: in an earlier block, or earlier in the same
Before(fn, i, j) ==
    \/ i.block < j.block
    \/ i.block = j.block /\ PlaceOf(fn, i) < PlaceOf(fn, j)

\* C20: in every function the instructions of the body are in the order
\* they were built in, which is the order of their statements: a statement
\* step leaves every instruction of the body in place and adds what it builds
\* behind them, in the last block or in a new block behind it (blocks are in
\* the order of their labels); the first block holds nothing but allocas and
\* the branch that closes it, so only allocas are out of statement order.
SourceOrder ==
    /\ [](\A f \in DOMAIN llvm.module :
              /\ \A i, j \in BodyInsts(llvm.module[f]) :
                     i.inst.val < j.inst.val => Before(llvm.module[f], i, j)
              /\ \A i \in InstsOf(llvm.module[f]) :
                     i.block = 1 => i.inst.op \in {"alloca", "br"})
    /\ [](epc = "body" => llvm.builder = <<llvm.method, Len(Blocks(llvm))>>)
    /\ [][StatementStep =>
            /\ Len(Blocks(llvm')) >= Len(Blocks(llvm))
            /\ \A b \in 2 .. Len(Blocks(llvm)) :
                   /\ Len(Blocks(llvm')[b].insts) >= Len(Blocks(llvm)[b].insts)
                   /\ SubSeq(Blocks(llvm')[b].insts, 1, Len(Blocks(llvm)[b].insts))
                         = Blocks(llvm)[b].insts
                   /\ b < Len(Blocks(llvm)) => Blocks(llvm')[b] = Blocks(llvm)[b]
            /\ \A i \in InstsOf(llvm'.module[llvm.method]) \ InstsOf(llvm.module[llvm.method]) :
                   i.inst.val > llvm.serial]_vars

\* a function with a labelled block whose first block has an alloca built
\* after an instruction of the body
AllocaOutOfOrder ==
    \E f \in DOMAIN llvm.module :
        /\ Len(llvm.module[f].blocks) >= 3
        /\ \E a, i \in InstsOf(llvm.module[f]) :
               /\ a.block = 1 /\ a.inst.op = "alloca"
               /\ i.block >= 2 /\ i.inst.op = "add"
               /\ i.inst.val < a.inst.val

(***************************************************************************)
(* Properties of calls and of the functions of a module.                   *)
(***************************************************************************)
\* the instructions of the block the body builder is in
Insertion(e) == e.module[e.builder[1]].blocks[e.builder[2]].insts

\* the step emits a call statement and returns Ok
CallStep == StatementStep /\ elast'.input.opcode = "Call" /\ elast'.st = "ok"

\* C21: a call that returns Ok adds one call instruction at the builder; its
\* callee is the value the function id had and its arguments are the values
\* the argument ids had, in argument order; without a destination no id
\* changes its value, with one destination that id is bound to the call.
CallResultBinding ==
    [][CallStep =>
        /\ Len(Insertion(llvm')) = Len(Insertion(llvm)) + 1
        /\ llvm'.builder = llvm.builder
        /\ LET call == Insertion(llvm')[Len(Insertion(llvm'))]
           IN  /\ call.op = "call"
               /\ Len(call.ops) = 1 + Len(elast'.input.args)
               /\ Answers(value(llvm, elast'.input.src1), call.ops[1])
               /\ \A i \in DOMAIN elast'.input.args :
                      Answers(value(llvm, elast'.input.args[i]), call.ops[i + 1])
               /\ \A id \in CallIds :
                      IF elast'.input.rets = <<id>>
                      THEN Answers(value(llvm', id), InstValue(call.val))
                      ELSE SameAnswer(value(llvm', id), value(llvm, id))]_vars

\* a call with a destination and two arguments of different values has
\* returned Ok
CallBoundResult ==
    /\ epc = "body"
    /\ elast.kind = "statement" /\ elast.st = "ok"
    /\ elast.input.opcode = "Call" /\ elast.input.rets = <<6>>
    /\ llvm.values[4].k = "param" /\ llvm.values[9].k = "const"
    /\ llvm.values[6].k = "inst"

\* the step hands a method directive to emit_method
MethodStep == elast'.kind = "method" /\ eused' = eused + 1

\* the name the three sources give a method whose id is in the identifier
\* table, None when none of them has one
NameSource(method) ==
    IF method.import_as # None THEN method.import_as
    ELSE IF method.name.kind = "Kernel" THEN Some(method.name.text)
    ELSE IdentMap[method.name.id].name

\* C22: a method is added under import_as when it has one, else under its
\* kernel name, else under the source name the identifier table holds for
\* its id (made unique in the module by LLVM); with none of the three
\* emit_method returns Unreachable and the module has the functions it had.
FunctionNamePrecedence ==
    [][MethodStep =>
        IF NameSource(elast'.input) = None
        THEN /\ elast'.st = "err" /\ eerr' = "Unreachable"
             /\ llvm'.module = llvm.module
        ELSE /\ elast'.st = "ok"
             /\ Len(llvm'.module) = Len(llvm.module) + 1
             /\ llvm'.module[Len(llvm'.module)].name =
                    UniqueName(llvm.module, NameSource(elast'.input)[1], 0)]_vars

\* a kernel with import_as has been added under the imported name
KernelImported ==
    /\ elast.kind = "method" /\ elast.st = "ok"
    /\ elast.input.name.kind = "Kernel" /\ elast.input.import_as = Some("x")
    /\ llvm.module[Len(llvm.module)].name = "x"

(***************************************************************************)
(* Array types.                                                            *)
(***************************************************************************)
\* the array type whose outermost length is the first dimension
RECURSIVE Nested(_, _)
Nested(dims, element) ==
    IF dims = <<>> THEN element
    ELSE LLVMArrayType2(Nested(Tail(dims), element), Head(dims))

\* the element type of an array type: the scalar, in a vector when packed
ElementType(type_) ==
    IF type_.size # 0 THEN LLVMVectorType(get_scalar_type(type_.scalar).ty, type_.size)
    ELSE get_scalar_type(type_.scalar).ty

\* the instructions of the block of the allocas
Allocas == llvm.module[llvm.variables_builder[1]].blocks[llvm.variables_builder[2]].insts

\* the last statement declared a variable of array type and returned Ok
ArrayDeclared ==
    /\ epc = "body"
    /\ elast.kind = "statement" /\ elast.st = "ok"
    /\ elast.input.kind = "Variable" /\ elast.input.v_type.k = "Array"

\* C23: the type of an array [d1, ..., dn] over an element type is the array
\* of d1 arrays of ... of dn elements, the element being the scalar or the
\* vector of the packed width; without dimensions it is the array of no
\* elements.
ArrayTypeNesting ==
    ArrayDeclared =>
        Allocas[Len(Allocas)].ty =
            IF elast.input.v_type.dims = <<>>
            THEN LLVMArrayType2(ElementType(elast.input.v_type), 0)
            ELSE Nested(elast.input.v_type.dims, ElementType(elast.input.v_type))

\* a variable of three dimensions over a vector has been declared
ThreeDimensions ==
    /\ ArrayDeclared
    /\ elast.input.v_type.dims = <<3, 2, 2>> /\ elast.input.v_type.size = 2
    /\ elast.input.v_type.scalar = "U32"
    /\ Allocas[Len(Allocas)].ty = "[3 x [2 x [2 x <2 x i32>]]]"

(***************************************************************************)
(* Scopes of the normalize pass.                                           *)
(***************************************************************************)
\* C24: when run has returned, with Ok or with an error, the scope stack of
\* the resolver is as deep as it was when run was entered: no scope of the
\* module, of a method or of a block is still open.
ScopeBalance ==
    npc \in {"done", "error"} => Len(resolver.scopes) = Len(NewResolver.scopes)

\* the step enters a statement list: its scope is open, its pre-pass is done
ListEntered == last'.kind \in {"MethodBegin", "BlockBegin"} /\ last'.ok /\ npc' = "body"

\* the labels of the instruction the step normalizes or fails on
LabelsMentioned ==
    { k \in DOMAIN Mentioned(last'.inst) : Mentioned(last'.inst)[k] \in LabelNames }

\* C25: the pre-pass of a statement list binds the labels of that list, each
\* to an id of its own, in the scope of the list and in no enclosing scope;
\* a label statement is given the id its own list bound; an instruction that
\* names a label gets the id of the innermost open list binding it, also
\* when the label stands later in an enclosing list, and fails when only
\* lists that are not open (a block not yet entered or already left) bind it.
LabelsPerList ==
    /\ [][ListEntered =>
            /\ \A l \in Range(frames'[Len(frames')].pending) :
                   /\ l \in DOMAIN CurrentScope(resolver')
                   /\ CurrentScope(resolver')[l] >= resolver.current_id
            /\ Len(resolver'.scopes) = Len(resolver.scopes) + 1
            /\ \A i \in 1 .. Len(resolver.scopes) : \A n \in LabelNames :
                   n \in DOMAIN resolver'.scopes[i] =>
                       /\ n \in DOMAIN resolver.scopes[i]
                       /\ resolver'.scopes[i][n] = resolver.scopes[i][n]]_vars
    /\ [][(last'.kind = "Label" /\ last'.ok) =>
            \E k \in DOMAIN intro :
                /\ intro[k].scope = Top.uid /\ intro[k].name = last'.label
                /\ result'[Len(result')].id = intro[k].id
                /\ \A m \in DOMAIN intro : m # k => intro[m].id # intro[k].id]_vars
    /\ [][(last'.kind = "Instruction" /\ used' # used) =>
            \A k \in LabelsMentioned :
                /\ BoundHere(Mentioned(last'.inst)[k]) = {} => ~last'.ok
                /\ last'.ok => InnermostBinding(Mentioned(last'.inst)[k],
                                                 Carried(result'[Len(result')])[k])]_vars

\* a label of a block and a label of the method have the same name and
\* different ids, and the block has been left
NestedLabelShadows ==
    /\ npc = "body" /\ Len(frames) = 1
    /\ \E i, j \in DOMAIN result :
           /\ i < j
           /\ result[i].kind = "Label" /\ result[j].kind = "Label"
           /\ result[i].src = result[j].src
           /\ result[i].list # result[j].list
           /\ result[i].id # result[j].id

\* the step hands a call statement to emit_statement
CallAttempt == StatementStep /\ elast'.input.opcode = "Call"

\* the step gives the id a function value it did not have
FunctionRegistered(id) ==
    /\ id \in DOMAIN llvm'.values /\ llvm'.values[id].k = "fn"
    /\ id \in DOMAIN llvm.values => ~SameValue(llvm'.values[id], llvm.values[id])

\* C26: an id gets a function value only in the step that emits the method
\* directive of the device function with that id, and that step gives it
\* one; a call whose callee id has no value yet returns Unreachable and
\* leaves the module as it was; a call whose callee and arguments have
\* values returns Ok and calls the value of the callee.
CalleeAvailability ==
    /\ [][\A id \in CallIds : FunctionRegistered(id) =>
               /\ MethodStep
               /\ elast'.input.name.kind = "Func" /\ elast'.input.name.id = id]_vars
    /\ [][(MethodStep /\ elast'.st = "ok" /\ elast'.input.name.kind = "Func") =>
               Answers(value(llvm', elast'.input.name.id), FnValue(Len(llvm'.module)))]_vars
    /\ [][(CallAttempt /\ elast'.input.src1 \notin DOMAIN llvm.values) =>
               /\ elast'.st = "err" /\ eerr' = "Unreachable"
               /\ llvm'.module = llvm.module]_vars
    /\ [][(CallAttempt /\ elast'.input.src1 \in DOMAIN llvm.values
                       /\ Range(elast'.input.args) \subseteq DOMAIN llvm.values) =>
               /\ elast'.st = "ok"
               /\ llvm.values[elast'.input.src1].k = "fn"
               /\ SameValue(Insertion(llvm')[Len(Insertion(llvm'))].ops[1],
                            llvm.values[elast'.input.src1])]_vars

\* a call of the device function f has failed in a module that does not hold
\* f yet, every argument of the call having a value
CallBeforeDirective ==
    /\ epc = "error" /\ eerr = "Unreachable"
    /\ elast.kind = "statement" /\ elast.input.opcode = "Call"
    /\ elast.input.src1 = 1 /\ elast.input.args = <<4>>
    /\ 4 \in DOMAIN llvm.values
    /\ \A f \in DOMAIN llvm.module : llvm.module[f].name # "f"

\* the function values registered for the id so far
FunctionsOf(id) ==
    IF id \in DOMAIN llvm.registered
    THEN { llvm.registered[id][i].f :
             i \in { j \in DOMAIN llvm.registered[id] : llvm.registered[id][j].k = "fn" } }
    ELSE {}

\* C27: over the emission of a directive stream at most one function of the
\* module is registered for a device-function id, a declaration followed by
\* the definition of the same function included.
OneFunctionPerId ==
    \A id \in CallIds : Cardinality(FunctionsOf(id)) <= 1

\* the step hands emit_statement a statement of the listed kinds and the
\* call returns an error
FailedStatement ==
    /\ StatementStep /\ elast'.st = "err"
    /\ \/ elast'.input.kind \in {"Variable", "LoadVar", "StoreVar", "Conversion", "Constant"}
       \/ /\ elast'.input.kind = "Instruction"
          /\ elast'.input.opcode \in {"Mov", "Ld", "St", "Add", "Call"}

\* C28: a statement for which emit_statement returns an error leaves the
\* value of every id as it was, binds no new id, and builds no instruction,
\* neither through the builder of the body nor anywhere else.
FailedStatementsDoNotBind ==
    [][FailedStatement =>
        /\ DOMAIN llvm'.values = DOMAIN llvm.values
        /\ \A id \in FailureIds : SameAnswer(value(llvm', id), value(llvm, id))
        /\ Len(Insertion(llvm')) = Len(Insertion(llvm))
        /\ llvm'.serial = llvm.serial
        /\ llvm'.builder = llvm.builder]_vars

\* an add whose second source has no value has failed after its destination
\* was bound to a constant, and the destination is still the constant
FailedAfterBinding ==
    /\ epc = "error"
    /\ elast.kind = "statement" /\ elast.st = "err" /\ elast.input.opcode = "Add"
    /\ elast.input.src1 \in DOMAIN llvm.values
    /\ elast.input.dst \in DOMAIN llvm.values
    /\ llvm.values[elast.input.dst].k = "const"

\* the block holds exactly one terminator and it is its last instruction
WellFormed(block) ==
    /\ block.insts # <<>>
    /\ \A k \in DOMAIN block.insts : IsTerminator(block.insts[k]) <=> k = Len(block.insts)

\* C29: once emit_method has returned Ok for a method with a body, every
\* basic block of its function holds exactly one terminator, as its last
\* instruction, whatever the statements of the body were.
WellFormedBlocks ==
    \A r \in Returned :
        r.body => \A b \in DOMAIN llvm.module[r.fn].blocks :
                      WellFormed(llvm.module[r.fn].blocks[b])

(***************************************************************************)
(* system_get_driver_version.                                              *)
(***************************************************************************)
\* the bytes the call stored are the start of the version with NUL as the
\* last stored byte
PrefixThenNul ==
    \A o \in nvml.written :
        nvml.mem[1][o + 1] = IF o + 1 = Cardinality(nvml.written) THEN 0 ELSE VERSION[o + 1]

\* C30: with a non-null pointer the call stores to the offsets below
\* min(length, 7) and to no other, so never at or beyond length; what it
\* stored is a prefix of "550.77" ended by NUL; the rest of the buffer is as
\* it was; it returns SUCCESS.  With a null pointer it stores nothing and
\* returns ERROR_INVALID_ARGUMENT.
DriverVersionInBounds ==
    nvml.pc = "returned" =>
        IF nvml.result = None
        THEN nvml.ret = "ERROR_INVALID_ARGUMENT" /\ nvml.written = {} /\ nvml.mem = None
        ELSE /\ nvml.ret = "SUCCESS"
             /\ nvml.written = 0 .. (IF nvml.length < 7 THEN nvml.length ELSE 7) - 1
             /\ \A o \in nvml.written : o < nvml.length
             /\ PrefixThenNul
             /\ Len(nvml.mem[1]) = Len(nvml.result[1])
             /\ \A o \in 0 .. Len(nvml.mem[1]) - 1 :
                    o \notin nvml.written => nvml.mem[1][o + 1] = nvml.result[1][o + 1]

\* a call with a length shorter than the version has returned: the buffer
\* holds the first characters, a NUL in the last byte the length allows,
\* and its own bytes behind it
VersionTruncated ==
    /\ nvml.pc = "returned" /\ nvml.result # None
    /\ nvml.length = 4 /\ Len(nvml.result[1]) = 6
    /\ nvml.mem[1] = <<53, 53, 48, 0, 170, 170>>

====
